---- MODULE Spec2Model ----
(***************************************************************************)
(* Job lifecycle of the UN1CA build service: the build_jobs table, the     *)
(* builds and controls queues, the builds worker (run_build_job and the    *)
(* operation-job wrapper), POST /jobs, POST /jobs/{id}/stop and the stop   *)
(* tasks of the controls worker.                                           *)
(*                                                                         *)
(* Every process works on the table through its own SQLAlchemy session:    *)
(* a read loads the row into the session (snap), assignments change the    *)
(* session's copy (cur), and commit issues an UPDATE of exactly the        *)
(* attributes whose value differs from the loaded one, then expires the    *)
(* copy, so that the next attribute access reloads the row.  Reads and     *)
(* commits of different processes interleave freely; nothing locks a row.  *)
(*                                                                         *)
(* Progress events go from the supervisor of a child through redis to the  *)
(* WebSocket streams; logs are streamed from the log file of a job; the    *)
(* auth settings decide which requests are admitted.                       *)
(*                                                                         *)
(* The specifications share the state:                                     *)
(*   Spec        the lifecycle of jobs, with the requests as single steps; *)
(*   SpecCreate  POST /jobs statement by statement with every kind of      *)
(*               request, POST /mods/upload, the builds worker and the     *)
(*               out tree, at one reading of the clock;                    *)
(*   SpecReuse   the same handler for repeated identical requests, with    *)
(*               the clock advancing;                                      *)
(*   SpecSig     the build signature of a pair of requests;                *)
(*   SpecProgress the read loop of a supervised child with its firmware    *)
(*               progress tracker, in milliseconds of the monotonic clock; *)
(*   SpecStream  WS /firmware/progress/ws and the events published;        *)
(*   SpecLogs    the log of a job and its WebSocket and SSE streams;       *)
(*   SpecAuth    the password, the tokens, the middleware and the check    *)
(*               of the WebSocket handlers;                                *)
(*   SpecLatest  the cache of the latest firmware version of one key;      *)
(*   SpecArchive POST /mods/upload entry by entry of the archive;          *)
(*   SpecOverrides the uploaded mods and debloat overrides that            *)
(*               run_build_job puts into the workspace and takes back.     *)
(***************************************************************************)
EXTENDS Integers, Sequences, FiniteSets, TLC

\* Bounds of the model: the number of requests the API accepts in a run, and
\* how many of them may create a job (POST /jobs, the operation endpoints) or
\* ask for a stop (POST /jobs/{id}/stop).
MaxRequests == 3
MaxJobs == 2
MaxStops == 2

\* WorkerSettingsBuilds.max_jobs and WorkerSettingsControls.max_jobs.
max_jobs == 1
controls_max_jobs == 4

JobIds == 1..MaxJobs
StopIds == 1..MaxStops

NULL == 0

Kinds == {"build", "extract", "repo", "delete"}
Signals == {"sigterm", "sigkill"}
TerminalStatuses == {"succeeded", "failed", "reused", "canceled"}

\* The values of BuildJob.error the handlers write.
SIG(sig) == IF sig = "sigkill" THEN "SIGKILL" ELSE "SIGTERM"
ErrCanceledQueued == "Build canceled by user (queued job)"
ErrCanceled(sig) == "Build canceled by user (" \o SIG(sig) \o ")"
ErrStillRunning(sig) ==
    "Stop requested by user (" \o SIG(sig)
        \o "), but process is still running. Retry stop if needed."
ErrPidMissing == "Stop requested by user, but build PID is missing."
ErrStopRequested(sig) == "Stop requested by user (" \o SIG(sig) \o ")"
ErrCanceledDefault == "Build canceled by user"
ErrBuildFailed == "Build failed with return code rc"
ErrException == "str(exc)"

VARIABLES
    db,        \* build_jobs: sequence of rows, the row of job j at db[j]
    builds,    \* queue unica-wb:builds: job ids, FIFO
    controls,  \* queue unica-wb:controls: stop request ids, FIFO
    bw,        \* builds worker: per job, the position and session of its task
    child,     \* per job, the child process (group) its task spawned
    api,       \* POST /jobs/{id}/stop handlers, per stop request
    st,        \* stop tasks on the controls worker, per stop request
    files,     \* the files that exist: artifacts in out/ and uploaded archives
    uploads,   \* the upload sidecars data/uploads/<id>.json, per upload id
    now,       \* the wall clock read by datetime.now
    post,      \* POST /jobs handlers, per request
    probe,     \* the requests whose signatures are compared
    mono,      \* time.time(), in milliseconds
    redis,     \* the firmware progress hash and the events published on its channel
    tracker,   \* the _FirmwareProgressTracker of the supervised job
    sup,       \* the supervisor of a child: the read loop of a build or extract job
    proc,      \* the child process of the supervisor
    ws,        \* a handler of WS /firmware/progress/ws and its client
    lg,        \* the log file of a job and a handler that streams it
    auth,      \* the auth settings and the requests answered under them
    latest,    \* the latest-version cache of one firmware key and its lookups
    arch,      \* an uploaded mods archive and its extraction directory
    wsp        \* the workspace of the repository under a build job's overrides

jobVars == <<controls, bw, child, api, st>>
progressVars == <<mono, redis, tracker, sup, proc>>
moreVars == <<latest, arch, wsp>>
servedVars == <<progressVars, ws, lg, auth>>
ioVars == <<servedVars, moreVars>>
createVars == <<files, uploads, now, post, probe, ioVars>>
vars == <<db, builds, controls, bw, child, api, st, files, uploads, now, post, probe, ioVars>>
buildVars == <<db, builds, files, uploads, now, post, probe, jobVars>>

\* A row of build_jobs (the columns the lifecycle reads or writes).  job_kind
\* holds "build" or, for job_kind = "operation", the family of the row's
\* operation_name: extract, repo (clone, pull, submodules) or delete.
BuildJob(kind, status, artifact) ==
    [job_kind |-> kind, status |-> status, queue_job_id |-> NULL,
     process_pid |-> NULL, error |-> "", artifact_path |-> artifact,
     build_signature |-> "", reused_from_job_id |-> NULL, no_rom_zip |-> FALSE,
     extra_mods_archive_path |-> NULL,
     created_at |-> now, started_at |-> NULL, finished_at |-> NULL]

NoRow ==
    [job_kind |-> "build", status |-> "", queue_job_id |-> NULL,
     process_pid |-> NULL, error |-> "", artifact_path |-> NULL,
     build_signature |-> "", reused_from_job_id |-> NULL, no_rom_zip |-> FALSE,
     extra_mods_archive_path |-> NULL,
     created_at |-> NULL, started_at |-> NULL, finished_at |-> NULL]

\* A session that holds no loaded copy of the row.
Expired == [loaded |-> FALSE, snap |-> NoRow, cur |-> NoRow]

\* db.get / attribute access on an expired object: load the row.
Load(row) == [loaded |-> TRUE, snap |-> row, cur |-> row]

\* db.commit(): UPDATE build_jobs SET <changed attributes> WHERE id = :id.
Flush(row, snap, cur) ==
    [f \in DOMAIN row |-> IF cur[f] # snap[f] THEN cur[f] ELSE row[f]]

(***************************************************************************)
(* POST /jobs: the request, its materialization and the build signature    *)
(***************************************************************************)

\* Bounds: POST /jobs requests, uploads, and readings of the clock.
MaxPosts == 3
MaxUploads == 1
MaxClock == 6

PostIds == 1..MaxPosts
\* The ids of the rows POST /jobs can insert.
RowIds == 1..MaxPosts
UploadIds == 1..MaxUploads

\* What the workspace holds: the directories under target/, the ids of
\* unica/mods and of the debloat list, the floating-feature keys.
Targets == {"a53x"}
ModIds == {"m1", "m2"}
DebloatIds == {"d1", "d2"}
FfKeys == {"K1", "K2"}

\* The strings that occur in id lists, in the order sorted() gives them.
Lex == <<"K1", "K2", "d1", "d2", "m1", "m2", "zz">>
Rank(x) == CHOOSE i \in DOMAIN Lex : Lex[i] = x

\* An absent optional field of the request: a list, a string, a number.
NoList == <<"None">>
NoStr == "None"
NoInt == -1

\* _resolve_source_commit and _get_defaults_for_target.
SourceCommit == "abc1234"
Defaults ==
    [source_firmware |-> "SRC/EUX", target_firmware |-> "TGT/EUX",
     version_major |-> 3, version_minor |-> 0, version_patch |-> 0,
     version_suffix |-> ""]

\* str(n) for the version numbers.
Str(n) == ToString(n)

\* str.strip() on the strings the requests carry.
Strip(s) == IF s = " beta " THEN "beta" ELSE s

\* The elements of a sequence.
Range(q) == {q[i] : i \in DOMAIN q}

\* sorted(set(xs)) for a list of ids.
RECURSIVE SortSet(_)
SortSet(S) ==
    IF S = {} THEN <<>>
    ELSE LET m == CHOOSE x \in S : \A y \in S : Rank(x) <= Rank(y)
         IN <<m>> \o SortSet(S \ {m})

SortedSet(xs) == SortSet(Range(xs))

\* json.dumps(list of strings, ensure_ascii=True).
RECURSIVE JsonItems(_)
JsonItems(xs) ==
    IF xs = <<>> THEN ""
    ELSE "\"" \o Head(xs) \o "\"" \o
         (IF Tail(xs) = <<>> THEN "" ELSE ", " \o JsonItems(Tail(xs)))

JsonList(xs) == "[" \o JsonItems(xs) \o "]"

\* hashlib.sha256(text.encode("utf-8")).hexdigest()[:n]: the digest is kept
\* symbolic, one digest per text and length.
Sha256(text, n) == "sha256(" \o text \o ")[:" \o ToString(n) \o "]"

\* normalize_ff_value: a bool becomes TRUE or FALSE, anything else its text
\* stripped.  A value of the request is [t |-> "bool", b |-> ..] or
\* [t |-> "str", s |-> ..].
normalize_ff_value(v) ==
    IF v.t = "bool" THEN (IF v.b THEN "TRUE" ELSE "FALSE") ELSE Strip(v.s)

\* The dict a JSON object of <<key, value>> members parses to: the last member
\* of a key wins.
FfKeysOf(pairs) == {pairs[i][1] : i \in DOMAIN pairs}
FfValue(pairs, k) ==
    LET last == CHOOSE i \in DOMAIN pairs :
                    /\ pairs[i][1] = k
                    /\ \A m \in DOMAIN pairs : pairs[m][1] = k => m <= i
    IN pairs[last][2]

\* json.dumps({k: normalize_ff_value(v)}, ensure_ascii=True, sort_keys=True).
RECURSIVE FfItems(_, _)
FfItems(keys, pairs) ==
    IF keys = <<>> THEN ""
    ELSE "\"" \o Head(keys) \o "\": \"" \o normalize_ff_value(FfValue(pairs, Head(keys))) \o "\""
         \o (IF Tail(keys) = <<>> THEN "" ELSE ", " \o FfItems(Tail(keys), pairs))

FfJson(pairs) == "{" \o FfItems(SortSet(FfKeysOf(pairs)), pairs) \o "}"

\* _normalize_path_list: strip, drop empty and repeated items, keep the order
\* of the request; a path with a newline, a carriage return or a double quote
\* is refused.
StripPath(s) == IF s = " system/app/Foo " THEN "system/app/Foo" ELSE s
InvalidPath(s) == s = "bad\"path"

RECURSIVE NormalizeFrom(_, _)
NormalizeFrom(values, out) ==
    IF values = <<>> THEN out
    ELSE LET item == StripPath(Head(values))
         IN IF item = "" \/ item \in Range(out)
            THEN NormalizeFrom(Tail(values), out)
            ELSE NormalizeFrom(Tail(values), Append(out, item))

normalize_path_list(values) ==
    IF values = NoList THEN <<>> ELSE NormalizeFrom(values, <<>>)

\* The item at which _normalize_path_list raises, if there is one.
RECURSIVE RefusedFrom(_, _)
RefusedFrom(values, seen) ==
    IF values = <<>> THEN FALSE
    ELSE LET item == StripPath(Head(values))
         IN IF item = "" \/ item \in seen THEN RefusedFrom(Tail(values), seen)
            ELSE InvalidPath(item) \/ RefusedFrom(Tail(values), seen \cup {item})

PathListRefused(values) == values # NoList /\ RefusedFrom(values, {})

\* json.dumps(sorted(set(ids))) with the order of the request kept.
DisabledJson_Unsorted(ids) == JsonList(ids)

\* json.dumps(sorted(set(ids)), ensure_ascii=True).
DisabledJson(ids) == JsonList(SortedSet(ids))

\* The fields of the request with the defaults filled in.
Materialize(payload) ==
    [target |-> payload.target,
     source_commit |-> SourceCommit,
     source_firmware |-> IF payload.source_firmware \notin {NoStr, ""}
                         THEN payload.source_firmware ELSE Defaults.source_firmware,
     target_firmware |-> IF payload.target_firmware \notin {NoStr, ""}
                         THEN payload.target_firmware ELSE Defaults.target_firmware,
     version_major |-> IF payload.version_major # NoInt
                       THEN payload.version_major ELSE Defaults.version_major,
     version_minor |-> IF payload.version_minor # NoInt
                       THEN payload.version_minor ELSE Defaults.version_minor,
     version_patch |-> IF payload.version_patch # NoInt
                       THEN payload.version_patch ELSE Defaults.version_patch,
     version_suffix |-> Strip(IF payload.version_suffix # NoStr
                              THEN payload.version_suffix ELSE Defaults.version_suffix)]

\* The digests of the payloads; modules is the module list of the upload the
\* request names, NoList when it names none.
Digests(payload, modules) ==
    [extra_mods |-> IF modules = NoList THEN "" ELSE Sha256(JsonList(modules), 16),
     mods |-> IF payload.mods_disabled = NoList THEN ""
              ELSE Sha256(DisabledJson(payload.mods_disabled), 16),
     debloat |-> Sha256(DisabledJson(IF payload.debloat_disabled = NoList THEN <<>>
                                     ELSE payload.debloat_disabled), 16),
     debloat_add_system |->
         Sha256(JsonList(normalize_path_list(payload.debloat_add_system)), 16),
     debloat_add_product |->
         Sha256(JsonList(normalize_path_list(payload.debloat_add_product)), 16),
     ff |-> IF payload.ff_overrides = <<>> THEN ""
            ELSE Sha256(FfJson(payload.ff_overrides), 16)]

\* "|".join(fields).
RECURSIVE Join(_)
Join(fields) ==
    IF Len(fields) = 1 THEN Head(fields) ELSE Head(fields) \o "|" \o Join(Tail(fields))

\* A signature that lists the digests as extra mods, mods_disabled,
\* debloat_disabled, debloat_add_system, debloat_add_product, ff_overrides.
build_signature_ModsSecond(m, d) ==
    Sha256(Join(<<m.target, m.source_commit, m.source_firmware, m.target_firmware,
                  Str(m.version_major), Str(m.version_minor), Str(m.version_patch),
                  m.version_suffix,
                  d.extra_mods, d.mods, d.debloat, d.debloat_add_system,
                  d.debloat_add_product, d.ff>>), 40)

\* _build_signature, on the materialized fields m and the digests d.
build_signature(m, d) ==
    Sha256(Join(<<m.target, m.source_commit, m.source_firmware, m.target_firmware,
                  Str(m.version_major), Str(m.version_minor), Str(m.version_patch),
                  m.version_suffix,
                  d.extra_mods, d.debloat, d.debloat_add_system,
                  d.debloat_add_product, d.mods, d.ff>>), 40)

\* An upload sidecar: absent, or {"used", "archive_path", "modules"}; the
\* archive of upload u is the file u of files.archives.
NoMeta == [present |-> FALSE, used |-> FALSE, modules |-> <<>>]

\* An upload check that does not look at the used flag.
UploadError_IgnoresUsed(payload) ==
    IF payload.extra_mods_upload_id = NULL THEN "ok"
    ELSE IF ~uploads[payload.extra_mods_upload_id].present
    THEN "Invalid extra_mods_upload_id"
    ELSE IF payload.extra_mods_upload_id \notin files.archives
    THEN "Uploaded mods archive file is missing"
    ELSE "ok"

\* The checks of create_job on the upload the request names.
UploadError(payload) ==
    IF payload.extra_mods_upload_id = NULL THEN "ok"
    ELSE IF ~uploads[payload.extra_mods_upload_id].present
    THEN "Invalid extra_mods_upload_id"
    ELSE IF uploads[payload.extra_mods_upload_id].used
    THEN "This uploaded mods archive has already been used"
    ELSE IF payload.extra_mods_upload_id \notin files.archives
    THEN "Uploaded mods archive file is missing"
    ELSE "ok"

\* A validation that lets every list of ids through.
PayloadError_AcceptsUnknownIds(payload) ==
    IF PathListRefused(payload.debloat_add_system)
       \/ PathListRefused(payload.debloat_add_product)
    THEN "Invalid debloat path"
    ELSE "ok"

\* The checks of create_job after the upload, in their order: mod ids, debloat
\* ids, debloat paths, floating-feature keys.
PayloadError(payload) ==
    IF payload.mods_disabled # NoList /\ ~(Range(payload.mods_disabled) \subseteq ModIds)
    THEN "Unknown mod ids"
    ELSE IF payload.debloat_disabled # NoList
            /\ ~(Range(payload.debloat_disabled) \subseteq DebloatIds)
    THEN "Unknown debloat ids"
    ELSE IF PathListRefused(payload.debloat_add_system)
            \/ PathListRefused(payload.debloat_add_product)
    THEN "Invalid debloat path"
    ELSE IF ~(FfKeysOf(payload.ff_overrides) \subseteq FfKeys)
    THEN "Unknown floating feature keys"
    ELSE "ok"

\* A request with nothing but the target.
BasePayload ==
    [target |-> "a53x", source_firmware |-> NoStr, target_firmware |-> NoStr,
     version_major |-> NoInt, version_minor |-> NoInt, version_patch |-> NoInt,
     version_suffix |-> NoStr, extra_mods_upload_id |-> NULL,
     mods_disabled |-> NoList, debloat_disabled |-> NoList,
     debloat_add_system |-> NoList, debloat_add_product |-> NoList,
     ff_overrides |-> <<>>, force |-> FALSE, no_rom_zip |-> FALSE]

\* A POST /jobs handler that has not been called: pc is its position, code
\* the HTTP status it answered with, job the row it inserted, existing the
\* row its reuse lookup selected, read_at the clock it read.
NoPost ==
    [pc |-> "idle", payload |-> BasePayload, code |-> 0, job |-> NULL,
     build_signature |-> "", existing |-> NULL, read_at |-> NULL]

\* No requests are being compared.
NoProbe == [pc |-> "none", a |-> BasePayload, b |-> BasePayload,
            sig_a |-> "", sig_b |-> ""]

Jobs == 1..Len(db)

\* The API has accepted fewer than MaxRequests requests.
Accepts == Len(db) + Cardinality({r \in StopIds : api[r].pc # "idle"}) < MaxRequests

\* A request that creates a job is accepted.
AcceptsJob == Accepts /\ Len(db) < MaxJobs

\* Bounds: the readings of time.time(), in milliseconds (T0 at startup; every
\* value of a second or more behaves alike there), and the chunks a child
\* writes.
T0 == 2000

\* Bounds of the latest-version cache: the reading of time.time() at the
\* start, in seconds, and the number of times the clock is moved.
Epoch == 10000
MaxElapses == 5

\* No entry under the redis key (_redis_get_json gives {}), no network
\* attempt so far, and no lookup answered so far.
Never == -1
NoEntry == [present |-> FALSE, value |-> "", fetched_at |-> 0, attempted_at |-> 0]
NoLookup == [at |-> Never, called |-> FALSE, failed |-> FALSE, returned |-> "",
             prev |-> NoEntry, prev_tried |-> Never]
MaxMono == 3500
MaxChunks == 2

\* The state of the program at startup: no row, empty queues, idle workers
\* and handlers, an empty out tree, no upload, no progress recorded.
InitProgram ==
    /\ db = <<>>
    /\ builds = <<>>
    /\ controls = <<>>
    /\ bw = [j \in JobIds |-> [pc |-> "idle", s |-> Expired]]
    /\ child = [j \in JobIds |-> [state |-> "none", rc |-> -1]]
    /\ api = [r \in StopIds |-> [pc |-> "idle", job |-> NULL, sig |-> "sigterm", s |-> Expired]]
    /\ st = [r \in StopIds |-> [pc |-> "none", job |-> NULL, sig |-> "sigterm", s |-> Expired]]
    /\ files = [out |-> <<>>, archives |-> {}]
    /\ uploads = [u \in UploadIds |-> NoMeta]
    /\ now = 1
    /\ post = [p \in PostIds |-> NoPost]
    /\ mono = T0
    /\ redis = [hash |-> <<>>, published |-> <<>>]
    /\ tracker = [known_keys |-> <<>>, current_key |-> "", started_keys |-> {},
                  last_emit |-> <<>>]
    /\ sup = [pc |-> "idle", kind |-> "build", status |-> "queued", ok |-> FALSE,
              rc |-> -1, exc |-> "", last_heartbeat |-> 0, spawned_at |-> 0,
              chunks |-> 0]
    /\ proc = [state |-> "none", rc |-> -1]
    /\ ws = [pc |-> "idle", peer |-> "none", snapshot |-> {}, subscribed |-> FALSE,
             first |-> 0, next |-> 0, received |-> <<>>, idle_polls |-> 0]
    /\ lg = [status |-> "queued", log_path |-> FALSE, writing |-> FALSE, size |-> 0,
             pc |-> "idle", kind |-> "ws", peer |-> "none", tail_kb |-> 0, pos |-> 0,
             size_at_connect |-> 0, final_size |-> 0, sent |-> <<>>]
    /\ auth = [settings |-> <<>>, time |-> 0, issued |-> {},
               last |-> [kind |-> "none", path |-> <<>>, token |-> [secret |-> "", ts |-> 0],
                         password |-> "", enabled |-> FALSE, valid |-> FALSE,
                         outcome |-> ""]]
    /\ latest = [cache |-> NoEntry, clock |-> Epoch, elapses |-> 0, tried_at |-> Never,
                 last |-> NoLookup]
    /\ arch = [pc |-> "idle", kind |-> "zip", entries |-> <<>>, i |-> 0, written |-> {},
               code |-> 0, detail |-> "", sidecar |-> FALSE]
    /\ wsp = [pc |-> "idle", archive |-> FALSE, debloat_json |-> FALSE, pending |-> <<>>,
              debloat_sh |-> "original", backup |-> "", uploaded |-> {}, tmp_dir |-> FALSE,
              extra_mods_tmp_dir |-> FALSE, applied_mod_dirs |-> {},
              debloat_override_paths |-> FALSE, exit |-> ""]

Init ==
    /\ InitProgram
    /\ probe = NoProbe

Executing == {j \in JobIds : bw[j].pc \notin {"idle", "returned"}}

SetRow(j, row) == db' = [db EXCEPT ![j] = row]
SetBw(j, pc, s) == bw' = [bw EXCEPT ![j] = [pc |-> pc, s |-> s]]

(***************************************************************************)
(* POST /jobs and the endpoints that create operation jobs                 *)
(***************************************************************************)

\* The reuse lookup of create_job: a succeeded or reused build with an artifact.
ReuseCandidates ==
    {e \in Jobs : /\ db[e].job_kind = "build"
                  /\ db[e].status \in {"succeeded", "reused"}
                  /\ db[e].artifact_path # NULL}

\* create_job, reuse branch: the row is inserted in status reused and nothing
\* is enqueued.
create_job_reused ==
    /\ AcceptsJob
    /\ \E e \in ReuseCandidates :
          db' = Append(db, BuildJob("build", "reused", db[e].artifact_path))
    /\ UNCHANGED <<builds, controls, bw, child, api, st>>
    /\ UNCHANGED createVars

\* create_job, fresh branch (force, no_rom_zip or nothing to reuse): the row is
\* inserted with the column default status = queued and committed.
create_job_insert(force) ==
    /\ AcceptsJob
    /\ force \/ ReuseCandidates = {}
    /\ db' = Append(db, BuildJob("build", "queued", NULL))
    /\ UNCHANGED <<builds, controls, bw, child, api, st>>
    /\ UNCHANGED createVars

\* _create_operation_job: the row of an extract, repo or delete operation.
create_operation_job(kind) ==
    /\ AcceptsJob
    /\ db' = Append(db, BuildJob(kind, "queued", NULL))
    /\ UNCHANGED <<builds, controls, bw, child, api, st>>
    /\ UNCHANGED createVars

\* job.queue_job_id = await _enqueue_build(...); db.commit(): the item is pushed
\* on the builds queue and the queue id stored (an UPDATE of queue_job_id alone).
enqueue_build(j) ==
    /\ j \in Jobs
    /\ db[j].queue_job_id = NULL
    /\ db[j].status # "reused"
    /\ bw[j].pc = "idle"
    /\ builds' = Append(builds, j)
    /\ SetRow(j, [db[j] EXCEPT !.queue_job_id = j])
    /\ UNCHANGED <<controls, bw, child, api, st>>
    /\ UNCHANGED createVars

(***************************************************************************)
(* The child process of a job                                              *)
(***************************************************************************)

\* The newest out/UN1CA_*.zip, NULL when there is none; files.out lists the
\* zips from the oldest to the newest, the zip of job j under the name j.
NewestZip == IF files.out = <<>> THEN NULL ELSE files.out[Len(files.out)]

\* The child exits on its own or by a signal, with return code 0 or not 0 (1);
\* it stays a zombie, and its process group present, until it is waited for.
\* A build that ends with 0 and was not told --no-rom-zip has written its zip.
child_exit(j, rc) ==
    /\ child[j].state = "running"
    /\ child' = [child EXCEPT ![j].state = "zombie", ![j].rc = rc]
    /\ files' = IF rc = 0 /\ db[j].job_kind = "build" /\ ~db[j].no_rom_zip
                THEN [files EXCEPT !.out = Append(@, j)]
                ELSE files
    /\ UNCHANGED <<db, builds, controls, bw, api, st>>
    /\ UNCHANGED <<uploads, now, post, probe, ioVars>>

\* subprocess.Popen(...): the child of job j starts.
Spawn(j) == child' = [child EXCEPT ![j] = [state |-> "running", rc |-> -1]]

\* proc.wait(): the exited child is reaped.
Reap(j) == child' = [child EXCEPT ![j].state = "reaped"]

(***************************************************************************)
(* run_build_job on the builds worker                                      *)
(***************************************************************************)

\* A resolution that does not look at the status a stopper stored.
ResolveStatus_IgnoresCanceled(status, rc) ==
    IF rc = 0 THEN "succeeded" ELSE "failed"

\* The status run_build_job gives the job after the child's exit, from the
\* status it reads back and the return code.
ResolveStatus(status, rc) ==
    IF status = "canceled" THEN "canceled"
    ELSE IF rc = 0 THEN "succeeded"
    ELSE "failed"

\* The assignments after the child's exit; artifact is the newest
\* out/UN1CA_*.zip, NULL when the glob matches nothing.
ResolveJob(job, rc, artifact) ==
    LET status == ResolveStatus(job.status, rc)
    IN IF status = "canceled"
       THEN [job EXCEPT !.error = IF job.error # "" THEN job.error ELSE ErrCanceledDefault,
                        !.finished_at = now]
       ELSE IF status = "succeeded"
       THEN [job EXCEPT !.status = status, !.finished_at = now,
                        !.artifact_path = IF artifact # NULL THEN artifact ELSE job.artifact_path]
       ELSE [job EXCEPT !.status = status, !.error = ErrBuildFailed, !.finished_at = now]

\* An except handler that records the error and leaves the status alone.
ExceptStatus_KeepsStatus(status) == status

\* The status the except handlers leave: failed unless the job is canceled.
ExceptStatus(status) == IF status # "canceled" THEN "failed" ELSE status

\* except Exception of run_build_job.
ExceptJob(job) ==
    [job EXCEPT !.status = ExceptStatus(job.status),
                !.error = IF job.status # "canceled" THEN ErrException ELSE job.error,
                !.finished_at = now,
                !.process_pid = NULL]

\* The worker takes the next builds item when fewer than max_jobs are executing.
Dequeue(j) ==
    /\ builds # <<>>
    /\ Head(builds) = j
    /\ Cardinality(Executing) < max_jobs
    /\ builds' = Tail(builds)

\* job = db.get(..); job.status = "running"; db.commit().  The status that was
\* loaded is not looked at.
run_build_job_start(j) ==
    /\ Dequeue(j)
    /\ db[j].job_kind = "build"
    /\ SetRow(j, Flush(db[j], db[j], [db[j] EXCEPT !.status = "running", !.started_at = now]))
    /\ SetBw(j, "started", Expired)
    /\ UNCHANGED <<controls, child, api, st>>
    /\ UNCHANGED createVars

\* An exception before the first commit (the logs directory cannot be made).
run_build_job_start_raises(j) ==
    /\ Dequeue(j)
    /\ db[j].job_kind = "build"
    /\ SetBw(j, "except", Load(db[j]))
    /\ UNCHANGED <<db, controls, child, api, st>>
    /\ UNCHANGED createVars

\* job.force ...: the expired object is reloaded; command line and overrides
\* are prepared.
run_build_job_prepare(j) ==
    /\ bw[j].pc = "started"
    /\ SetBw(j, "prep", Load(db[j]))
    /\ UNCHANGED <<db, builds, controls, child, api, st>>
    /\ UNCHANGED createVars

\* An exception while the overrides are applied or the child is spawned.
run_build_job_prepare_raises(j) ==
    /\ bw[j].pc = "prep"
    /\ SetBw(j, "except", bw[j].s)
    /\ UNCHANGED <<db, builds, controls, child, api, st>>
    /\ UNCHANGED createVars

\* proc = Popen(.., preexec_fn=os.setsid); job.process_pid = proc.pid; commit.
run_build_job_spawn(j) ==
    /\ bw[j].pc = "prep"
    /\ Spawn(j)
    /\ SetRow(j, Flush(db[j], bw[j].s.snap, [bw[j].s.cur EXCEPT !.process_pid = j]))
    /\ SetBw(j, "reading", Expired)
    /\ UNCHANGED <<builds, controls, api, st>>
    /\ UNCHANGED createVars

\* An exception in the read loop (read, log write, tracker.feed/heartbeat):
\* the child is neither signalled nor waited for.
run_build_job_read_raises(j) ==
    /\ bw[j].pc = "reading"
    /\ db[j].job_kind = "build"
    /\ SetBw(j, "except", Expired)
    /\ UNCHANGED <<db, builds, controls, child, api, st>>
    /\ UNCHANGED createVars

\* End of output; rc = proc.wait(); tracker.finalize; refreshed = db.get(..);
\* refreshed.process_pid = None; db.commit().
run_build_job_wait(j) ==
    /\ bw[j].pc = "reading"
    /\ db[j].job_kind = "build"
    /\ child[j].state = "zombie"
    /\ Reap(j)
    /\ SetRow(j, [db[j] EXCEPT !.process_pid = NULL])
    /\ SetBw(j, "resolve", Expired)
    /\ UNCHANGED <<builds, controls, api, st>>
    /\ UNCHANGED createVars

\* tracker.finalize raises after proc.wait().
run_build_job_finalize_raises(j) ==
    /\ bw[j].pc = "reading"
    /\ db[j].job_kind = "build"
    /\ child[j].state = "zombie"
    /\ Reap(j)
    /\ SetBw(j, "except", Expired)
    /\ UNCHANGED <<db, builds, controls, api, st>>
    /\ UNCHANGED createVars

\* job.return_code = rc; ...; if job.status == "canceled": the status is read
\* back from the table here, and the final fields are assigned.
run_build_job_resolve(j, artifact) ==
    /\ bw[j].pc = "resolve"
    /\ artifact = IF child[j].rc = 0 /\ db[j].status # "canceled" THEN NewestZip ELSE NULL
    /\ SetBw(j, "finalize",
             [loaded |-> TRUE, snap |-> db[j], cur |-> ResolveJob(db[j], child[j].rc, artifact)])
    /\ UNCHANGED <<db, builds, controls, child, api, st>>
    /\ UNCHANGED createVars

\* os.path.getmtime raises in the artifact scan, after job.status = "succeeded".
run_build_job_resolve_raises(j) ==
    /\ bw[j].pc = "resolve"
    /\ child[j].rc = 0
    /\ db[j].status # "canceled"
    /\ files.out # <<>>
    /\ SetBw(j, "except",
             [loaded |-> TRUE, snap |-> db[j], cur |-> [db[j] EXCEPT !.status = "succeeded"]])
    /\ UNCHANGED <<db, builds, controls, child, api, st>>
    /\ UNCHANGED createVars

\* db.commit() of the final fields; finally: the overrides are undone and the
\* session closed; the task returns.
run_build_job_commit(j) ==
    /\ bw[j].pc = "finalize"
    /\ SetRow(j, Flush(db[j], bw[j].s.snap, bw[j].s.cur))
    /\ SetBw(j, "returned", Expired)
    /\ UNCHANGED <<builds, controls, child, api, st>>
    /\ files' = [files EXCEPT !.archives = @ \ {db'[j].extra_mods_archive_path}]
    /\ UNCHANGED <<uploads, now, post, probe, ioVars>>

\* except Exception: job = db.get(..) (a reload when the object is expired),
\* then the assignments of the handler.
run_build_job_except(j) ==
    /\ bw[j].pc = "except"
    /\ db[j].job_kind = "build"
    /\ LET s == IF bw[j].s.loaded THEN bw[j].s ELSE Load(db[j])
       IN SetBw(j, "except_commit", [s EXCEPT !.cur = ExceptJob(s.cur)])
    /\ UNCHANGED <<db, builds, controls, child, api, st>>
    /\ UNCHANGED createVars

\* db.commit() of the except handler; finally, as above; the task returns.
run_build_job_except_commit(j) ==
    /\ bw[j].pc = "except_commit"
    /\ db[j].job_kind = "build"
    /\ SetRow(j, Flush(db[j], bw[j].s.snap, bw[j].s.cur))
    /\ SetBw(j, "returned", Expired)
    /\ UNCHANGED <<builds, controls, child, api, st>>
    /\ files' = [files EXCEPT !.archives = @ \ {db'[j].extra_mods_archive_path}]
    /\ UNCHANGED <<uploads, now, post, probe, ioVars>>

(***************************************************************************)
(* Operation jobs on the builds worker: _run_operation_job and its bodies  *)
(***************************************************************************)

\* except Exception of _run_operation_job.
ExceptOperation(job) ==
    [job EXCEPT !.status = ExceptStatus(job.status),
                !.error = IF job.status # "canceled" THEN ErrException ELSE job.error,
                !.finished_at = IF job.status # "canceled" THEN now ELSE job.finished_at]

\* _set_job_pid and the like: a session of its own stores the pid.
set_job_pid(j, pid) == SetRow(j, [db[j] EXCEPT !.process_pid = pid])

\* job = db.get(..); job.status = "running"; db.commit(); operation(log_file).
run_operation_job_start(j) ==
    /\ Dequeue(j)
    /\ db[j].job_kind # "build"
    /\ SetRow(j, Flush(db[j], db[j], [db[j] EXCEPT !.status = "running", !.started_at = now]))
    /\ SetBw(j, "op_body", Expired)
    /\ UNCHANGED <<controls, child, api, st>>
    /\ UNCHANGED createVars

\* The body raises before any child is started, or in a body without a child.
run_operation_body_raises(j) ==
    /\ bw[j].pc = "op_body"
    /\ SetBw(j, "except", Expired)
    /\ UNCHANGED <<db, builds, controls, child, api, st>>
    /\ UNCHANGED createVars

\* run_delete_samsung_fw_job / run_repo_delete_job: the body has no child.
run_delete_job(j) ==
    /\ bw[j].pc = "op_body"
    /\ db[j].job_kind = "delete"
    /\ SetBw(j, "op_ok", Expired)
    /\ UNCHANGED <<db, builds, controls, child, api, st>>
    /\ UNCHANGED createVars

\* run_extract_samsung_fw_job and _stream_command_with_progress: Popen without
\* a new session, then the pid is stored.
run_operation_spawn(j) ==
    /\ bw[j].pc = "op_body"
    /\ db[j].job_kind \in {"extract", "repo"}
    /\ Spawn(j)
    /\ set_job_pid(j, j)
    /\ SetBw(j, "reading", Expired)
    /\ UNCHANGED <<builds, controls, api, st>>
    /\ UNCHANGED createVars

\* End of output; rc = proc.wait(); the pid is cleared; a return code other
\* than 0 raises CalledProcessError.
run_operation_wait(j) ==
    /\ bw[j].pc = "reading"
    /\ db[j].job_kind \in {"extract", "repo"}
    /\ child[j].state = "zombie"
    /\ Reap(j)
    /\ set_job_pid(j, NULL)
    /\ SetBw(j, IF child[j].rc = 0 THEN "op_ok" ELSE "except", Expired)
    /\ UNCHANGED <<builds, controls, api, st>>
    /\ UNCHANGED createVars

\* An exception in the read loop: the finally of the extract body clears the
\* pid, _stream_command_with_progress does not; the child is left alone.
run_operation_read_raises(j) ==
    /\ bw[j].pc = "reading"
    /\ db[j].job_kind \in {"extract", "repo"}
    /\ IF db[j].job_kind = "extract" THEN set_job_pid(j, NULL) ELSE UNCHANGED db
    /\ SetBw(j, "except", Expired)
    /\ UNCHANGED <<builds, controls, child, api, st>>
    /\ UNCHANGED createVars

\* operation returned: job = db.get(..); job.status = "succeeded"; db.commit().
run_operation_job_succeed(j) ==
    /\ bw[j].pc = "op_ok"
    /\ SetRow(j, Flush(db[j], db[j], [db[j] EXCEPT !.status = "succeeded", !.finished_at = now]))
    /\ SetBw(j, "returned", Expired)
    /\ UNCHANGED <<builds, controls, child, api, st>>
    /\ UNCHANGED createVars

\* except Exception: job = db.get(..) reloads the row; failed unless canceled.
run_operation_job_except(j) ==
    /\ bw[j].pc = "except"
    /\ db[j].job_kind # "build"
    /\ SetBw(j, "except_commit", [Load(db[j]) EXCEPT !.cur = ExceptOperation(db[j])])
    /\ UNCHANGED <<db, builds, controls, child, api, st>>
    /\ UNCHANGED createVars

\* db.commit() of the except handler; finally: db.close(); the task returns.
run_operation_job_except_commit(j) ==
    /\ bw[j].pc = "except_commit"
    /\ db[j].job_kind # "build"
    /\ SetRow(j, Flush(db[j], bw[j].s.snap, bw[j].s.cur))
    /\ SetBw(j, "returned", Expired)
    /\ UNCHANGED <<builds, controls, child, api, st>>
    /\ UNCHANGED createVars

(***************************************************************************)
(* POST /jobs/{id}/stop                                                    *)
(***************************************************************************)

\* A handler that has returned.
ApiDone == [pc |-> "done", job |-> NULL, sig |-> "sigterm", s |-> Expired]

\* The assignments of stop_job on the row it loaded.
StopJobRequest(job, sig) ==
    IF job.status \in TerminalStatuses THEN job
    ELSE IF job.status = "queued"
    THEN [job EXCEPT !.status = "canceled", !.error = ErrCanceledQueued, !.finished_at = now]
    ELSE [job EXCEPT !.error = ErrStopRequested(sig)]

\* stop_job up to its commit: the row is loaded; a terminal job is returned as
\* it is; a queued job is marked canceled in the session; for any other job a
\* stop task is enqueued on the controls queue.
stop_job(r, j, sig) ==
    /\ Accepts
    /\ api[r].pc = "idle"
    /\ \A q \in StopIds : q < r => api[q].pc # "idle"
    /\ j \in Jobs
    /\ LET row == db[j]
           toTask == row.status \notin TerminalStatuses /\ row.status # "queued"
       IN /\ api' = [api EXCEPT ![r] =
                        IF row.status \in TerminalStatuses
                        THEN ApiDone
                        ELSE [pc |-> "commit", job |-> j, sig |-> sig,
                              s |-> [Load(row) EXCEPT !.cur = StopJobRequest(row, sig)]]]
          /\ controls' = IF toTask THEN Append(controls, r) ELSE controls
          /\ st' = IF toTask
                   THEN [st EXCEPT ![r] = [pc |-> "queued", job |-> j, sig |-> sig, s |-> Expired]]
                   ELSE st
    /\ UNCHANGED <<db, builds, bw, child>>
    /\ UNCHANGED createVars

\* db.commit() of stop_job.
stop_job_commit(r) ==
    /\ api[r].pc = "commit"
    /\ SetRow(api[r].job, Flush(db[api[r].job], api[r].s.snap, api[r].s.cur))
    /\ api' = [api EXCEPT ![r] = ApiDone]
    /\ UNCHANGED <<builds, controls, bw, child, st>>
    /\ UNCHANGED createVars

(***************************************************************************)
(* run_stop_job_task on the controls worker                                *)
(***************************************************************************)

\* _is_alive(pid): os.killpg(pid, 0).  The child of a build leads a process
\* group of its own (setsid), present until the child is reaped; the child of
\* an operation leads no group, so killpg raises ProcessLookupError.
is_alive(j) ==
    IF db[j].job_kind = "build" THEN child[j].state \in {"running", "zombie"}
    ELSE FALSE

\* The assignments after the wait loop, by the last _is_alive.
StopOutcome(job, sig, alive) ==
    IF ~alive
    THEN [job EXCEPT !.status = "canceled", !.error = ErrCanceled(sig), !.process_pid = NULL,
                     !.finished_at = now]
    ELSE [job EXCEPT !.error = ErrStillRunning(sig)]

\* The branches of run_stop_job_task that end without waiting: a terminal job
\* is left alone; a queued job with a queue id is marked canceled (the fetch of
\* the queue item is best effort and removes nothing from the builds queue); a
\* running job without a pid gets an error text.
StopImmediate(job) ==
    IF job.status \in TerminalStatuses THEN job
    ELSE IF job.status = "queued" /\ job.queue_job_id # NULL
    THEN [job EXCEPT !.status = "canceled", !.error = ErrCanceledQueued, !.finished_at = now]
    ELSE IF job.status = "running" /\ job.process_pid = NULL
    THEN [job EXCEPT !.error = ErrPidMissing]
    ELSE job

StopTasksActive == {r \in StopIds : st[r].pc = "waiting"}

\* The task is taken from the controls queue and loads the row.  A running
\* job with a pid is signalled (os.killpg, else os.kill) and the task starts
\* to wait; every other branch commits at once and returns.
run_stop_job_task(r) ==
    /\ controls # <<>>
    /\ Head(controls) = r
    /\ Cardinality(StopTasksActive) < controls_max_jobs
    /\ controls' = Tail(controls)
    /\ LET j == st[r].job
           row == db[j]
       IN IF row.status = "running" /\ row.process_pid # NULL
          THEN /\ st' = [st EXCEPT ![r].pc = "waiting", ![r].s = Load(row)]
               /\ UNCHANGED <<db, child>>
          ELSE /\ st' = [st EXCEPT ![r].pc = "done"]
               /\ SetRow(j, Flush(row, row, StopImmediate(row)))
               /\ UNCHANGED child
    /\ UNCHANGED <<builds, bw, api>>
    /\ UNCHANGED createVars

\* The wait loop ends with the process group gone: the job is marked canceled
\* and the row committed.
run_stop_job_task_canceled(r) ==
    /\ st[r].pc = "waiting"
    /\ ~is_alive(st[r].job)
    /\ SetRow(st[r].job, Flush(db[st[r].job], st[r].s.snap,
                               StopOutcome(st[r].s.cur, st[r].sig, FALSE)))
    /\ st' = [st EXCEPT ![r].pc = "canceled", ![r].s = Expired]
    /\ UNCHANGED <<builds, controls, bw, child, api>>
    /\ UNCHANGED createVars

\* The deadline (25 s for SIGTERM, 5 s for SIGKILL) passes with the process
\* group still alive: only the error text is committed.
run_stop_job_task_timeout(r) ==
    /\ st[r].pc = "waiting"
    /\ is_alive(st[r].job)
    /\ SetRow(st[r].job, Flush(db[st[r].job], st[r].s.snap,
                               StopOutcome(st[r].s.cur, st[r].sig, TRUE)))
    /\ st' = [st EXCEPT ![r].pc = "timeout", ![r].s = Expired]
    /\ UNCHANGED <<builds, controls, bw, child, api>>
    /\ UNCHANGED createVars

(***************************************************************************)
(* The system                                                              *)
(***************************************************************************)

Next ==
    \/ create_job_reused
    \/ \E force \in BOOLEAN : create_job_insert(force)
    \/ \E kind \in Kinds \ {"build"} : create_operation_job(kind)
    \/ \E j \in JobIds : enqueue_build(j)
    \/ \E j \in JobIds, rc \in {0, 1} : child_exit(j, rc)
    \/ \E j \in JobIds : run_build_job_start(j)
    \/ \E j \in JobIds : run_build_job_start_raises(j)
    \/ \E j \in JobIds : run_build_job_prepare(j)
    \/ \E j \in JobIds : run_build_job_prepare_raises(j)
    \/ \E j \in JobIds : run_build_job_spawn(j)
    \/ \E j \in JobIds : run_build_job_read_raises(j)
    \/ \E j \in JobIds : run_build_job_wait(j)
    \/ \E j \in JobIds : run_build_job_finalize_raises(j)
    \/ \E j \in JobIds : \E artifact \in {NULL} \cup JobIds : run_build_job_resolve(j, artifact)
    \/ \E j \in JobIds : run_build_job_resolve_raises(j)
    \/ \E j \in JobIds : run_build_job_commit(j)
    \/ \E j \in JobIds : run_build_job_except(j)
    \/ \E j \in JobIds : run_build_job_except_commit(j)
    \/ \E j \in JobIds : run_operation_job_start(j)
    \/ \E j \in JobIds : run_operation_body_raises(j)
    \/ \E j \in JobIds : run_delete_job(j)
    \/ \E j \in JobIds : run_operation_spawn(j)
    \/ \E j \in JobIds : run_operation_wait(j)
    \/ \E j \in JobIds : run_operation_read_raises(j)
    \/ \E j \in JobIds : run_operation_job_succeed(j)
    \/ \E j \in JobIds : run_operation_job_except(j)
    \/ \E j \in JobIds : run_operation_job_except_commit(j)
    \/ \E r \in StopIds, j \in JobIds, sig \in Signals : stop_job(r, j, sig)
    \/ \E r \in StopIds : stop_job_commit(r)
    \/ \E r \in StopIds : run_stop_job_task(r)
    \/ \E r \in StopIds : run_stop_job_task_canceled(r)
    \/ \E r \in StopIds : run_stop_job_task_timeout(r)

Spec == Init /\ [][Next]_vars

(***************************************************************************)
(* POST /jobs step by step, POST /mods/upload, the clock and the out tree  *)
(***************************************************************************)

\* The requests POST /jobs is called with: the plain request, the same with
\* force, with no_rom_zip, with an upload, and one request for every check
\* that refuses it.
CreatePayloads ==
    {BasePayload,
     [BasePayload EXCEPT !.force = TRUE],
     [BasePayload EXCEPT !.no_rom_zip = TRUE],
     [BasePayload EXCEPT !.extra_mods_upload_id = 1],
     [BasePayload EXCEPT !.target = "nope"],
     [BasePayload EXCEPT !.mods_disabled = <<"zz">>],
     [BasePayload EXCEPT !.debloat_disabled = <<"d1", "zz">>],
     [BasePayload EXCEPT !.debloat_add_system = <<"bad\"path">>],
     [BasePayload EXCEPT !.ff_overrides = << <<"zz", [t |-> "bool", b |-> TRUE]>> >>],
     [BasePayload EXCEPT !.extra_mods_upload_id = 1, !.mods_disabled = <<"zz">>]}

\* The first error of the checks of create_job, "ok" when the request passes.
CreateError(payload) ==
    IF payload.target \notin Targets THEN "Unknown target"
    ELSE IF UploadError(payload) # "ok" THEN UploadError(payload)
    ELSE PayloadError(payload)

\* The handler is between its first statement and its first await; the event
\* loop of the API runs no other handler meanwhile.
InSyncSection(p) == post[p].pc \in {"validated", "reuse", "fresh"}

\* order_by(desc(finished_at), desc(created_at)): row a comes before row b.
\* Rows equal in both columns come in the order the database happens to give.
Before(a, b) ==
    \/ db[a].finished_at > db[b].finished_at
    \/ db[a].finished_at = db[b].finished_at /\ db[a].created_at >= db[b].created_at

\* The rows the query of the reuse lookup matches.
Matching(signature) ==
    {e \in Jobs : /\ db[e].build_signature = signature
                  /\ db[e].status \in {"succeeded", "reused"}
                  /\ db[e].artifact_path # NULL}

\* .first() of the query: the rows it may return, NULL when none matches.
FirstMatching(signature) ==
    IF Matching(signature) = {} THEN {NULL}
    ELSE {e \in Matching(signature) : \A o \in Matching(signature) : Before(e, o)}

\* Path(artifact_path).exists().
Exists(artifact_path) == artifact_path \in Range(files.out)

\* A lookup that only force skips.
SkipsLookup_ForceOnly(payload) == payload.force

\* if not payload.force and not payload.no_rom_zip: the lookup is skipped
\* otherwise.
SkipsLookup(payload) == payload.force \/ payload.no_rom_zip

\* A lookup that reuses a row without looking at its file.
Reusable_FileNotChecked(existing) == existing # NULL

\* if existing and existing.artifact_path and Path(..).exists().
Reusable(existing) == existing # NULL /\ Exists(db[existing].artifact_path)

\* create_job up to the signature: the target, the upload (which is marked
\* used here, before the later checks), the ids, the paths, the floating
\* feature keys.  A refused request is answered 400.
create_job_validate(p, payload) ==
    /\ post[p].pc = "idle"
    /\ \A q \in PostIds : q < p => post[q].pc # "idle"
    /\ \A q \in PostIds : ~InSyncSection(q)
    /\ LET u == payload.extra_mods_upload_id
           taken == payload.target \in Targets /\ u # NULL /\ UploadError(payload) = "ok"
           modules == IF u = NULL THEN NoList ELSE uploads[u].modules
       IN /\ uploads' = IF taken THEN [uploads EXCEPT ![u].used = TRUE] ELSE uploads
          /\ post' = [post EXCEPT ![p] =
                IF CreateError(payload) # "ok"
                THEN [NoPost EXCEPT !.pc = "done", !.payload = payload, !.code = 400]
                ELSE [NoPost EXCEPT !.pc = "validated", !.payload = payload,
                          !.build_signature =
                              build_signature(Materialize(payload), Digests(payload, modules))]]
    /\ UNCHANGED <<db, builds, files, now, probe, ioVars>>
    /\ UNCHANGED jobVars

\* The reuse lookup: skipped with force or no_rom_zip; otherwise the first row
\* of the query, reused if its file exists; the clock is read and the uploaded
\* archive removed.
create_job_lookup(p, existing) ==
    /\ post[p].pc = "validated"
    /\ IF SkipsLookup(post[p].payload)
       THEN existing = NULL
       ELSE existing \in FirstMatching(post[p].build_signature)
    /\ IF Reusable(existing)
       THEN /\ post' = [post EXCEPT ![p].pc = "reuse", ![p].existing = existing,
                                    ![p].read_at = now]
            /\ files' = [files EXCEPT !.archives = @ \ {post[p].payload.extra_mods_upload_id}]
       ELSE /\ post' = [post EXCEPT ![p].pc = "fresh"]
            /\ UNCHANGED files
    /\ UNCHANGED <<db, builds, uploads, now, probe, ioVars>>
    /\ UNCHANGED jobVars

\* The row of a fresh build: status by the column default, created_at by the
\* column default at the INSERT.
QueuedJob(p) ==
    [BuildJob("build", "queued", NULL) EXCEPT
        !.build_signature = post[p].build_signature,
        !.no_rom_zip = post[p].payload.no_rom_zip,
        !.extra_mods_archive_path = post[p].payload.extra_mods_upload_id]

\* The row of the reuse branch: started_at and finished_at are the clock read
\* at the lookup, created_at the column default at the INSERT.
ReusedJob(p) ==
    [BuildJob("build", "reused", db[post[p].existing].artifact_path) EXCEPT
        !.build_signature = post[p].build_signature,
        !.no_rom_zip = post[p].payload.no_rom_zip,
        !.reused_from_job_id = post[p].existing,
        !.started_at = post[p].read_at,
        !.finished_at = post[p].read_at]

\* db.add(job); db.commit(); return job, in the reuse branch.
create_job_reuse_commit(p) ==
    /\ post[p].pc = "reuse"
    /\ db' = Append(db, ReusedJob(p))
    /\ post' = [post EXCEPT ![p].pc = "done", ![p].code = 200, ![p].job = Len(db) + 1]
    /\ UNCHANGED <<builds, files, uploads, now, probe, ioVars>>
    /\ UNCHANGED jobVars

\* db.add(job); db.commit(); db.refresh(job), in the fresh branch.
create_job_fresh_commit(p) ==
    /\ post[p].pc = "fresh"
    /\ db' = Append(db, QueuedJob(p))
    /\ post' = [post EXCEPT ![p].pc = "inserted", ![p].job = Len(db) + 1]
    /\ UNCHANGED <<builds, files, uploads, now, probe, ioVars>>
    /\ UNCHANGED jobVars

\* job.queue_job_id = await _enqueue_build(..); db.commit(); return job.
create_job_enqueue(p) ==
    /\ post[p].pc = "inserted"
    /\ \A q \in PostIds : ~InSyncSection(q)
    /\ builds' = Append(builds, post[p].job)
    /\ SetRow(post[p].job, [db[post[p].job] EXCEPT !.queue_job_id = post[p].job])
    /\ post' = [post EXCEPT ![p].pc = "done", ![p].code = 200]
    /\ UNCHANGED <<files, uploads, now, probe, ioVars>>
    /\ UNCHANGED jobVars

\* _enqueue_build raises (the pool cannot reach redis): the request is
\* answered 500; the row was committed before and is not touched again.
create_job_enqueue_raises(p) ==
    /\ post[p].pc = "inserted"
    /\ \A q \in PostIds : ~InSyncSection(q)
    /\ post' = [post EXCEPT ![p].pc = "done", ![p].code = 500]
    /\ UNCHANGED <<db, builds, files, uploads, now, probe, ioVars>>
    /\ UNCHANGED jobVars

\* An upload id that may name an upload made before.
NewUploadId_Any(u) == TRUE

\* new_upload_id(): a uuid4, which names no upload made before.
NewUploadId(u) == ~uploads[u].present

\* POST /mods/upload with a valid archive: a new upload id, the archive on
\* disk, the sidecar written with used = false.
upload_mods_archive(u) ==
    /\ NewUploadId(u)
    /\ \A q \in PostIds : ~InSyncSection(q)
    /\ uploads' = [uploads EXCEPT ![u] = [present |-> TRUE, used |-> FALSE, modules |-> <<"m9">>]]
    /\ files' = [files EXCEPT !.archives = @ \cup {u}]
    /\ UNCHANGED <<db, builds, now, post, probe, ioVars>>
    /\ UNCHANGED jobVars

\* The clock advances.
Tick ==
    /\ now < MaxClock
    /\ now' = now + 1
    /\ UNCHANGED <<db, builds, files, uploads, post, probe, ioVars>>
    /\ UNCHANGED jobVars

\* A zip is removed from the out tree (by a repo delete with out, by a clean
\* build, by hand).
remove_artifact(z) ==
    /\ z \in Range(files.out)
    /\ files' = [files EXCEPT !.out = SelectSeq(@, LAMBDA x : x # z)]
    /\ UNCHANGED <<db, builds, uploads, now, post, probe, ioVars>>
    /\ UNCHANGED jobVars

InitCreate == Init

\* The clock does not advance here: all timestamps are equal and the query
\* of the reuse lookup may return any matching row first.
NextCreate ==
    \/ \E p \in PostIds, payload \in CreatePayloads : create_job_validate(p, payload)
    \/ \E p \in PostIds, existing \in {NULL} \cup RowIds : create_job_lookup(p, existing)
    \/ \E p \in PostIds : create_job_reuse_commit(p)
    \/ \E p \in PostIds : create_job_fresh_commit(p)
    \/ \E p \in PostIds : create_job_enqueue(p)
    \/ \E p \in PostIds : create_job_enqueue_raises(p)
    \/ \E u \in UploadIds : upload_mods_archive(u)
    \/ \E z \in JobIds : remove_artifact(z)
    \/ \E j \in JobIds, rc \in {0, 1} : child_exit(j, rc)
    \/ \E j \in JobIds : run_build_job_start(j)
    \/ \E j \in JobIds : run_build_job_prepare(j)
    \/ \E j \in JobIds : run_build_job_spawn(j)
    \/ \E j \in JobIds : run_build_job_wait(j)
    \/ \E j \in JobIds : \E artifact \in {NULL} \cup JobIds : run_build_job_resolve(j, artifact)
    \/ \E j \in JobIds : run_build_job_commit(j)

SpecCreate == InitCreate /\ [][NextCreate]_vars

\* The timestamps stored so far, and the clock values the handlers hold.
Stamps ==
    UNION {{db[j].created_at, db[j].started_at, db[j].finished_at} : j \in Jobs}
        \cup {post[p].read_at : p \in PostIds}

\* The clock has advanced since it was last read: two reads that are a
\* database round trip apart do not return the same microsecond.
ClockMoved == \A t \in Stamps : t = NULL \/ t < now

\* The requests of the reuse scenario: the same inputs, with and without force.
ReusePayloads == {BasePayload, [BasePayload EXCEPT !.force = TRUE]}

InitReuse == Init

\* POST /jobs with the same inputs again and again, the builds worker, the
\* clock and the out tree.  A step that stores a reading of the clock waits
\* for the clock to have moved past the readings stored before.
NextReuse ==
    \/ \E p \in PostIds, payload \in ReusePayloads : create_job_validate(p, payload)
    \/ \E p \in PostIds, existing \in {NULL} \cup RowIds : ClockMoved /\ create_job_lookup(p, existing)
    \/ \E p \in PostIds : ClockMoved /\ create_job_reuse_commit(p)
    \/ \E p \in PostIds : ClockMoved /\ create_job_fresh_commit(p)
    \/ \E p \in PostIds : create_job_enqueue(p)
    \/ \E p \in PostIds : create_job_enqueue_raises(p)
    \/ Tick
    \/ \E z \in JobIds : remove_artifact(z)
    \/ \E j \in JobIds, rc \in {0, 1} : child_exit(j, rc)
    \/ \E j \in JobIds : ClockMoved /\ run_build_job_start(j)
    \/ \E j \in JobIds : run_build_job_prepare(j)
    \/ \E j \in JobIds : run_build_job_spawn(j)
    \/ \E j \in JobIds : run_build_job_wait(j)
    \/ \E j \in JobIds : \E artifact \in {NULL} \cup JobIds : ClockMoved /\ run_build_job_resolve(j, artifact)
    \/ \E j \in JobIds : run_build_job_commit(j)

SpecReuse == InitReuse /\ [][NextReuse]_vars

(***************************************************************************)
(* The signature of two requests                                           *)
(***************************************************************************)

\* The requests whose signatures are compared: every combination of these
\* payloads.  Lists come in both orders and with a repeated id, the map in
\* both orders of its keys, a default is given explicitly or left out.
SigModsDisabled == {NoList, <<"m1", "m2">>, <<"m2", "m1">>, <<"m1", "m2", "m1">>}
SigDebloatDisabled == {NoList, <<"d1", "d2">>, <<"d2", "d1">>}
SigAddSystem == {NoList, <<" system/app/Foo ", "system/app/Bar">>,
                 <<"system/app/Bar", "system/app/Foo">>}
SigFfOverrides ==
    {<<>>,
     << <<"K1", [t |-> "bool", b |-> TRUE]>>, <<"K2", [t |-> "str", s |-> " beta "]>> >>,
     << <<"K2", [t |-> "str", s |-> " beta "]>>, <<"K1", [t |-> "bool", b |-> TRUE]>> >>,
     << <<"K1", [t |-> "bool", b |-> FALSE]>> >>}
SigVersionMajor == {NoInt, Defaults.version_major}

SigPayloads ==
    {[BasePayload EXCEPT !.mods_disabled = m, !.debloat_disabled = d,
                         !.debloat_add_system = a, !.ff_overrides = f,
                         !.version_major = v] :
        m \in SigModsDisabled, d \in SigDebloatDisabled, a \in SigAddSystem,
        f \in SigFfOverrides, v \in SigVersionMajor}

\* The signature create_job computes for a request that names no upload.
SignatureOf(payload) == build_signature(Materialize(payload), Digests(payload, NoList))

InitSig ==
    /\ InitProgram
    /\ \E a \in SigPayloads, b \in SigPayloads :
          probe = [NoProbe EXCEPT !.pc = "drawn", !.a = a, !.b = b]

\* create_job computes the signature of either request.
compute_signatures ==
    /\ probe.pc = "drawn"
    /\ probe' = [probe EXCEPT !.pc = "computed",
                              !.sig_a = SignatureOf(probe.a),
                              !.sig_b = SignatureOf(probe.b)]
    /\ UNCHANGED <<db, builds, files, uploads, now, post, ioVars>>
    /\ UNCHANGED jobVars

NextSig == compute_signatures

SpecSig == InitSig /\ [][NextSig]_vars

(***************************************************************************)
(* The supervisor of a child and its firmware progress tracker            *)
(***************************************************************************)

\* The firmware keys (MODEL_CSC) and their order under sorted().
FwKeys == <<"SM-A_EUX", "SM-B_EUX">>

\* int(progress.get("percent", -1)), and the mark of a payload that has no
\* "percent" key.
NoPercent == -1
Absent == -2

\* The lines a child writes: the firmware key the line names ("" for none),
\* the number in front of a % sign and the done/total byte pair (NoPercent
\* and <<>> where the line has none).
ProgressLines ==
    {[key |-> "", pct |-> 40, bytes |-> <<>>],
     [key |-> "", pct |-> 250, bytes |-> <<>>],
     [key |-> "", pct |-> NoPercent, bytes |-> <<1, 0>>],
     [key |-> FwKeys[1], pct |-> NoPercent, bytes |-> <<>>],
     [key |-> FwKeys[1], pct |-> NoPercent, bytes |-> <<2, 5>>],
     [key |-> FwKeys[2], pct |-> 40, bytes |-> <<>>]}

\* _parse_progress: whether the line yields a payload, and the payload's
\* percent, clamped to 0..100 (Absent when the payload has none).
parse_progress(line) ==
    LET Clamp(n) == IF n < 0 THEN 0 ELSE IF n > 100 THEN 100 ELSE n
    IN [some |-> line.pct # NoPercent \/ line.bytes # <<>>,
        percent |-> IF line.pct # NoPercent THEN Clamp(line.pct)
                    ELSE IF line.bytes # <<>> /\ line.bytes[2] > 0
                    THEN Clamp((line.bytes[1] * 100) \div line.bytes[2])
                    ELSE Absent]

\* dict.get(k, default) and dict[k] = v.
Get(f, k, default) == IF k \in DOMAIN f THEN f[k] ELSE default
Put(f, k, v) == [x \in DOMAIN f \cup {k} |-> IF x = k THEN v ELSE f[x]]

\* The body firmware_progress.set_progress encodes; by names the method of
\* the tracker that made the call and is not part of the body.
ProgressEvent(key, status, percent, t, by) ==
    [fw_key |-> key, status |-> status, percent |-> percent, updated_at |-> t, by |-> by]

\* What redis does during a call: it answers, hset raises, or hset answers
\* and publish raises.
Faults == {"none", "hset", "publish"}

\* Calls of firmware_progress.set_progress, one for each event in turn:
\* hset, then publish, with nothing caught.  With a fault the first call
\* raises.
set_progress(r, events, fault) ==
    IF events = <<>> THEN [redis |-> r, raised |-> FALSE]
    ELSE IF fault = "none"
    THEN [redis |-> [r EXCEPT
                       !.hash = [k \in DOMAIN r.hash \cup {e.fw_key : e \in Range(events)} |->
                                   LET mine == SelectSeq(events, LAMBDA e : e.fw_key = k)
                                   IN IF mine = <<>> THEN r.hash[k] ELSE mine[Len(mine)]],
                       !.published = @ \o events],
          raised |-> FALSE]
    ELSE IF fault = "hset"
    THEN [redis |-> r, raised |-> TRUE]
    ELSE [redis |-> [r EXCEPT !.hash = Put(@, events[1].fw_key, events[1])], raised |-> TRUE]

\* _FirmwareProgressTracker.__init__.
FirmwareProgressTracker(known_keys) ==
    [known_keys |-> known_keys,
     current_key |-> IF Len(known_keys) = 1 THEN known_keys[1] ELSE "",
     started_keys |-> {}, last_emit |-> <<>>]

\* A tracker that publishes every parsed line.
Repeats_Never(pct, last, t) == FALSE

\* feed: the line repeats the percent last emitted for the key, and too soon.
Repeats(pct, last, t) == pct >= 0 /\ pct = last[1] /\ t - last[2] < 900

\* feed of one line at time t: the tracker afterwards and the events handed
\* to set_progress.
feed(tr, line, t) ==
    LET current == IF line.key # "" THEN line.key ELSE tr.current_key
        progress == parse_progress(line)
        key == IF current # "" THEN current
               ELSE IF Len(tr.known_keys) = 1 THEN tr.known_keys[1] ELSE ""
        pct == IF progress.percent = Absent THEN NoPercent ELSE progress.percent
        tr1 == [tr EXCEPT !.current_key = current]
    IN IF ~progress.some \/ key = "" \/ Repeats(pct, Get(tr.last_emit, key, <<NoPercent, 0>>), t)
       THEN [tracker |-> tr1, events |-> <<>>]
       ELSE [tracker |-> [tr1 EXCEPT !.last_emit = Put(@, key, <<pct, t>>),
                                     !.started_keys = @ \cup {key}],
             events |-> <<ProgressEvent(key, "running", progress.percent, t, "feed")>>]

\* targets of heartbeat and finalize: started_keys or set(known_keys).
TrackedKeys(tr) == IF tr.started_keys # {} THEN tr.started_keys ELSE Range(tr.known_keys)

\* The orders in which a for loop may walk a set.
Orders(S) == {o \in [1..Cardinality(S) -> S] : \A i, j \in DOMAIN o : o[i] = o[j] => i = j}

\* heartbeat at time t, walking the targets in the given order.
heartbeat(tr, order, t) ==
    [i \in DOMAIN order |->
        LET last_pct == Get(tr.last_emit, order[i], <<0, 0>>)[1]
        IN ProgressEvent(order[i], "running", IF last_pct > 0 THEN last_pct ELSE 0, t, "heartbeat")]

\* finalize(ok) at time t, over sorted(targets).
finalize(tr, ok, t) ==
    LET targets == SelectSeq(FwKeys, LAMBDA k : k \in TrackedKeys(tr))
    IN [i \in DOMAIN targets |->
          ProgressEvent(targets[i], IF ok THEN "completed" ELSE "failed",
                        IF ok THEN 100 ELSE Get(tr.last_emit, targets[i], <<0, 0>>)[1],
                        t, "finalize")]

\* run_build_job and run_extract_samsung_fw_job from the tracker to Popen: a
\* build tracks the keys of its source and target firmware (those that are
\* not empty), an extract its one key, with a heartbeat before the child is
\* started.  An exception there fails the job before there is a child.
supervise(kind, known_keys, order, fault) ==
    /\ sup.pc = "idle"
    /\ kind = "extract" => Len(known_keys) = 1
    /\ LET tr == FirmwareProgressTracker(known_keys)
           sent == IF kind = "extract"
                   THEN set_progress(redis, heartbeat(tr, order, mono), fault)
                   ELSE [redis |-> redis, raised |-> FALSE]
       IN /\ order \in Orders(TrackedKeys(tr))
          /\ tracker' = tr
          /\ redis' = sent.redis
          /\ IF sent.raised
             THEN /\ sup' = [sup EXCEPT !.pc = "returned", !.kind = kind, !.exc = "redis",
                                        !.status = ExceptStatus("running")]
                  /\ UNCHANGED proc
             ELSE /\ sup' = [sup EXCEPT !.pc = "reading", !.kind = kind, !.status = "running",
                                        !.spawned_at = mono]
                  /\ proc' = [state |-> "running", rc |-> -1]
    /\ UNCHANGED <<buildVars, moreVars, ws, lg, auth, mono>>

\* One round of the read loop: the child has written a line, read(4096)
\* returns it, tracker.feed, and tracker.heartbeat when a second has passed
\* since the last one.  An exception leaves the loop for the finally clause.
read_loop(line, order, fault_feed, fault_beat) ==
    /\ sup.pc = "reading"
    /\ proc.state = "running"
    /\ sup.chunks < MaxChunks
    /\ LET fed == feed(tracker, line, mono)
           sent == set_progress(redis, fed.events, fault_feed)
           due == mono - sup.last_heartbeat >= 1000
           beat == IF ~sent.raised /\ due
                   THEN set_progress(sent.redis, heartbeat(fed.tracker, order, mono), fault_beat)
                   ELSE sent
       IN /\ order \in Orders(TrackedKeys(fed.tracker))
          /\ tracker' = fed.tracker
          /\ redis' = beat.redis
          /\ sup' = IF beat.raised
                    THEN [sup EXCEPT !.pc = "finally", !.exc = "redis", !.chunks = @ + 1]
                    ELSE [sup EXCEPT !.last_heartbeat = IF due THEN mono ELSE @,
                                     !.chunks = @ + 1]
    /\ UNCHANGED <<buildVars, moreVars, ws, lg, auth, mono, proc>>

\* The child of the supervisor exits with return code 0 or 1.
proc_exit(rc) ==
    /\ proc.state = "running"
    /\ proc' = [state |-> "exited", rc |-> rc]
    /\ UNCHANGED <<buildVars, moreVars, ws, lg, auth, mono, redis, tracker, sup>>

\* read returns "": rc = proc.wait(); ok = rc == 0.  An extract raises
\* CalledProcessError when rc is not 0.
read_loop_eof ==
    /\ sup.pc = "reading"
    /\ proc.state = "exited"
    /\ proc' = [proc EXCEPT !.state = "reaped"]
    /\ sup' = [sup EXCEPT !.pc = "finally", !.rc = proc.rc, !.ok = proc.rc = 0,
                          !.exc = IF sup.kind = "extract" /\ proc.rc # 0
                                  THEN "CalledProcessError" ELSE ""]
    /\ UNCHANGED <<buildVars, moreVars, ws, lg, auth, mono, redis, tracker>>

\* finally: tracker.finalize(ok), then the status of the job: from the return
\* code when nothing was raised, by the except handler otherwise.
finally_finalize(fault) ==
    /\ sup.pc = "finally"
    /\ LET sent == set_progress(redis, finalize(tracker, sup.ok, mono), fault)
           exc == IF sent.raised THEN "redis" ELSE sup.exc
       IN /\ redis' = sent.redis
          /\ sup' = [sup EXCEPT !.pc = "returned", !.exc = exc,
                                !.status = IF exc # "" THEN ExceptStatus(@)
                                           ELSE IF sup.kind = "build" THEN ResolveStatus(@, sup.rc)
                                           ELSE "succeeded"]
    /\ UNCHANGED <<buildVars, moreVars, ws, lg, auth, mono, tracker, proc>>

\* Time passes while the supervisor is in its read loop.
Elapse(d) ==
    /\ sup.pc = "reading"
    /\ mono + d <= MaxMono
    /\ mono' = mono + d
    /\ UNCHANGED <<buildVars, moreVars, ws, lg, auth, redis, tracker, sup, proc>>

NextProgress ==
    \/ \E kind \in {"build", "extract"}, fault \in Faults :
         \E known_keys \in {<<>>, <<FwKeys[1]>>, FwKeys} :
           \E order \in Orders(Range(known_keys)) : supervise(kind, known_keys, order, fault)
    \/ \E line \in ProgressLines, fault_feed \in Faults, fault_beat \in Faults :
         \E order \in UNION {Orders(S) : S \in SUBSET Range(FwKeys)} :
           read_loop(line, order, fault_feed, fault_beat)
    \/ \E rc \in {0, 1} : proc_exit(rc)
    \/ read_loop_eof
    \/ \E fault \in Faults : finally_finalize(fault)
    \/ \E d \in {400, 500} : Elapse(d)

SpecProgress == Init /\ [][NextProgress]_vars

(***************************************************************************)
(* WS /firmware/progress/ws: snapshot, subscription and polling loop       *)
(***************************************************************************)

\* Bounds: the events published on the channel while a client is served, and
\* the polls in a row that return no message which are counted after the
\* client has gone.
MaxPublished == 3
MaxIdlePolls == 2

\* A worker publishes progress for a key: set_progress while redis answers.
publish_progress(key, percent) ==
    /\ Len(redis.published) < MaxPublished
    /\ redis' = set_progress(redis, <<ProgressEvent(key, "running", percent, mono, "feed")>>,
                             "none").redis
    /\ UNCHANGED <<buildVars, moreVars, mono, tracker, sup, proc, ws, lg, auth>>

\* The client closes the connection.  The handler never calls receive, so it
\* learns of it only from a send that fails.
peer_disconnect ==
    /\ ws.peer = "open"
    /\ ws' = [ws EXCEPT !.peer = "gone"]
    /\ UNCHANGED <<buildVars, moreVars, progressVars, lg, auth>>

\* await websocket.accept(); auth is off; pubsub = redis_conn.pubsub(..).
stream_accept ==
    /\ ws.pc = "idle"
    /\ ws' = [ws EXCEPT !.pc = "accepted", !.peer = "open"]
    /\ UNCHANGED <<buildVars, moreVars, progressVars, lg, auth>>

\* progress = await asyncio.to_thread(list_progress): hgetall of the hash.
stream_list_progress ==
    /\ ws.pc = "accepted"
    /\ ws' = [ws EXCEPT !.pc = "listed", !.snapshot = Range(redis.hash)]
    /\ UNCHANGED <<buildVars, moreVars, progressVars, lg, auth>>

\* websocket.send_json: the message reaches the client, or the send raises
\* because the client has gone.
Send(w, message) ==
    IF w.peer = "open"
    THEN [w EXCEPT !.received = Append(@, message)]
    ELSE [w EXCEPT !.pc = "finally"]

\* await websocket.send_json({"type": "snapshot", "items": ..}).
stream_send_snapshot ==
    /\ ws.pc = "listed"
    /\ ws' = Send([ws EXCEPT !.pc = "subscribing"], [type |-> "snapshot", items |-> ws.snapshot])
    /\ UNCHANGED <<buildVars, moreVars, progressVars, lg, auth>>

\* await asyncio.to_thread(pubsub.subscribe, PROGRESS_CHANNEL): the events
\* published from now on are queued for the subscription.
stream_subscribe ==
    /\ ws.pc = "subscribing"
    /\ ws' = [ws EXCEPT !.pc = "polling", !.subscribed = TRUE,
                        !.first = Len(redis.published) + 1,
                        !.next = Len(redis.published) + 1]
    /\ UNCHANGED <<buildVars, moreVars, progressVars, lg, auth>>

\* A subscription that hands out the newest event of the channel.
get_message_Newest(published, next) == Len(published)

\* pubsub.get_message(timeout=1.0): the position on the channel of the next
\* queued event, 0 (None) when the timeout passes with nothing queued.
get_message(published, next) == IF next <= Len(published) THEN next ELSE 0

\* One round of the loop: get_message, send_json of the payload when there is
\* a message, asyncio.sleep(0.1).
stream_poll ==
    /\ ws.pc = "polling"
    /\ LET at == get_message(redis.published, ws.next)
       IN ws' = IF at # 0
                THEN Send([ws EXCEPT !.next = at + 1],
                          [type |-> "delta", body |-> redis.published[at]])
                ELSE [ws EXCEPT !.idle_polls =
                                   IF ws.peer = "gone" /\ @ < MaxIdlePolls THEN @ + 1 ELSE @]
    /\ UNCHANGED <<buildVars, moreVars, progressVars, lg, auth>>

\* except WebSocketDisconnect: pass; finally: pubsub.close().
stream_finally ==
    /\ ws.pc = "finally"
    /\ ws' = [ws EXCEPT !.pc = "closed", !.subscribed = FALSE]
    /\ UNCHANGED <<buildVars, moreVars, progressVars, lg, auth>>

NextStream ==
    \/ \E key \in Range(FwKeys), percent \in {40, 100} : publish_progress(key, percent)
    \/ peer_disconnect
    \/ stream_accept
    \/ stream_list_progress
    \/ stream_send_snapshot
    \/ stream_subscribe
    \/ stream_poll
    \/ stream_finally

SpecStream == Init /\ [][NextStream]_vars

(***************************************************************************)
(* The log of a job and its streams: WS /jobs/{id}/ws, GET /jobs/{id}/logs *)
(***************************************************************************)

\* Bound: the lines the worker appends to the log.  The log is a sequence of
\* lines of 1024 bytes, and positions in it are counted in lines.
MaxLog == 3

\* run_build_job, _run_operation_job: status running and log_path in one
\* commit; the worker then writes the log.
log_job_start ==
    /\ lg.status = "queued"
    /\ lg' = [lg EXCEPT !.status = "running", !.log_path = TRUE, !.writing = TRUE]
    /\ UNCHANGED <<buildVars, moreVars, progressVars, ws, auth>>

\* lf.write(chunk): the worker appends a line.
log_append ==
    /\ lg.writing
    /\ lg.size < MaxLog
    /\ lg' = [lg EXCEPT !.size = @ + 1]
    /\ UNCHANGED <<buildVars, moreVars, progressVars, ws, auth>>

\* The stop task stores canceled while the worker is still at work.
\* final_size keeps the size the log had when the final status was stored.
log_job_cancel ==
    /\ lg.status = "running"
    /\ lg.writing
    /\ lg' = [lg EXCEPT !.status = "canceled", !.final_size = lg.size]
    /\ UNCHANGED <<buildVars, moreVars, progressVars, ws, auth>>

\* The worker has written its last line and stores the final status.
log_job_finish(rc) ==
    /\ lg.writing
    /\ lg' = [lg EXCEPT !.writing = FALSE, !.status = ResolveStatus(@, rc),
                        !.final_size = IF lg.status = "canceled" THEN @ ELSE lg.size]
    /\ UNCHANGED <<buildVars, moreVars, progressVars, ws, auth>>

\* _tail_log_start_pos of a log of size lines: the start when tail_kb is 0 or
\* less or covers the log, otherwise size - tail_kb moved past the line that
\* begins there (seek, readline, tell).
tail_log_start_pos(size, tail_kb) ==
    IF tail_kb <= 0 \/ size - tail_kb <= 0 THEN 0 ELSE size - tail_kb + 1

\* websocket.send_json or a yield of the generator: the message reaches the
\* client, or the handler ends because the client has gone.
Emit(l, message) ==
    IF l.peer = "open" THEN [l EXCEPT !.sent = Append(@, message)]
    ELSE [l EXCEPT !.pc = "ended"]

\* The client connects; the handler reads the row (_get_job_log_snapshot, or
\* db.get for SSE) and ends with an error when the job has no log_path.
\* tail_kb is clamped to 0..4096; SSE starts at position 0.
stream_logs_open(kind, tail_kb) ==
    /\ lg.pc = "idle"
    /\ kind = "sse" => tail_kb = 0
    /\ lg' = IF lg.log_path
             THEN [lg EXCEPT !.pc = IF kind = "ws" THEN "tail" ELSE "read",
                             !.kind = kind, !.peer = "open", !.tail_kb = tail_kb,
                             !.size_at_connect = lg.size]
             ELSE [lg EXCEPT !.pc = "ended", !.kind = kind, !.peer = "open",
                             !.sent = <<[type |-> "error", from |-> 0, to |-> 0, status |-> ""]>>]
    /\ UNCHANGED <<buildVars, moreVars, progressVars, ws, auth>>

\* pos = await asyncio.to_thread(_tail_log_start_pos, log_path, tail_kb).
stream_logs_tail ==
    /\ lg.pc = "tail"
    /\ lg' = [lg EXCEPT !.pc = "read", !.pos = tail_log_start_pos(lg.size, lg.tail_kb)]
    /\ UNCHANGED <<buildVars, moreVars, progressVars, ws, auth>>

\* chunk, pos = _read_log_chunk(log_path, pos); the chunk is sent when it is
\* not empty.
stream_logs_read ==
    /\ lg.pc = "read"
    /\ lg' = IF lg.pos < lg.size
             THEN Emit([lg EXCEPT !.pc = "status", !.pos = lg.size],
                       [type |-> "chunk", from |-> lg.pos, to |-> lg.size, status |-> ""])
             ELSE [lg EXCEPT !.pc = "status"]
    /\ UNCHANGED <<buildVars, moreVars, progressVars, ws, auth>>

\* A stream that reports done whatever the status.
StreamDone_Always(status) == TRUE

\* if status in {"succeeded", "failed", "canceled"}.
StreamDone(status) == status \in {"succeeded", "failed", "canceled"}

\* current = _get_job_log_snapshot(job_id): done and the end of the loop on a
\* final status, otherwise asyncio.sleep(1) and the next round.
stream_logs_status ==
    /\ lg.pc = "status"
    /\ lg' = IF StreamDone(lg.status)
             THEN Emit([lg EXCEPT !.pc = "ended"],
                       [type |-> "done", from |-> 0, to |-> 0, status |-> lg.status])
             ELSE [lg EXCEPT !.pc = "read"]
    /\ UNCHANGED <<buildVars, moreVars, progressVars, ws, auth>>

\* The client of the log stream closes the connection.
stream_logs_peer_gone ==
    /\ lg.peer = "open"
    /\ lg.pc # "ended"
    /\ lg' = [lg EXCEPT !.peer = "gone"]
    /\ UNCHANGED <<buildVars, moreVars, progressVars, ws, auth>>

NextLogs ==
    \/ log_job_start
    \/ log_append
    \/ log_job_cancel
    \/ \E rc \in {0, 1} : log_job_finish(rc)
    \/ \E kind \in {"ws", "sse"}, tail_kb \in {0, 1, 256} :
         stream_logs_open(kind, tail_kb)
    \/ stream_logs_tail
    \/ stream_logs_read
    \/ stream_logs_status
    \/ stream_logs_peer_gone

\* The event loop runs a handler that is ready: after each await (a thread,
\* a sleep of a second) the handler goes on.
SpecLogs ==
    /\ Init
    /\ [][NextLogs]_vars
    /\ WF_vars(stream_logs_tail)
    /\ WF_vars(stream_logs_read)
    /\ WF_vars(stream_logs_status)

(***************************************************************************)
(* Authentication: the auth settings, tokens, the HTTP middleware and the  *)
(* check of the WebSocket handlers                                         *)
(***************************************************************************)

\* Bound: the days that pass.  _AUTH_TOKEN_TTL_SEC, in days.
MaxDays == 8

\* Bound: the tokens the service hands out.
MaxTokens == 2
AUTH_TOKEN_TTL_DAYS == 7

\* No token in the request, and a token that was signed with another secret.
NoToken == [secret |-> "", ts |-> 0]
ForgedToken == [secret |-> "forged", ts |-> 0]

\* Request paths, by their segments.
ApiPrefix == <<"api", "v1">>
Paths == {ApiPrefix \o <<"healthz">>, ApiPrefix \o <<"auth", "status">>,
          ApiPrefix \o <<"jobs">>, ApiPrefix \o <<"jobs", "healthz">>}

\* _hash_password, with the digest as a function of password and salt.
hash_password(password, salt) == "pbkdf2(" \o password \o "," \o salt \o ")"

\* _auth_enabled: both settings have a value.
auth_enabled(settings) ==
    Get(settings, "auth.hash", "") # "" /\ Get(settings, "auth.salt", "") # ""

\* _make_token and _verify_token: the signature is made with the secret, and
\* the token is good for _AUTH_TOKEN_TTL_SEC.
make_token(secret, t) == [secret |-> secret, ts |-> t]
verify_token(secret, token, t) == token.secret = secret /\ t - token.ts <= AUTH_TOKEN_TTL_DAYS

\* _get_token_from_request: the bearer token, else the token of the query.
\* _require_ws_auth looks at the query first.
get_token_from_request(header, query) == IF header # NoToken THEN header ELSE query

\* if not token or not _verify_token(_get_auth_secret(db), token).
Unauthorized(settings, token, t) ==
    token = NoToken \/ ~verify_token(Get(settings, "auth.hash", ""), token, t)

\* auth_middleware: the answer 401, or the request goes to its handler.
auth_middleware(settings, path, token, t) ==
    IF path[Len(path)] \in {"healthz", "readyz"} THEN "admitted"
    ELSE IF Len(path) > Len(ApiPrefix) + 1
            /\ SubSeq(path, 1, Len(ApiPrefix) + 1) = ApiPrefix \o <<"auth">> THEN "admitted"
    ELSE IF ~auth_enabled(settings) THEN "admitted"
    ELSE IF Unauthorized(settings, token, t) THEN "401"
    ELSE "admitted"

\* accept, then _require_ws_auth: close(4401) before anything is sent, or the
\* handler goes on.
require_ws_auth(settings, token, t) ==
    IF ~auth_enabled(settings) THEN "admitted"
    ELSE IF Unauthorized(settings, token, t) THEN "4401"
    ELSE "admitted"

\* A handler that deletes auth.hash and leaves auth.salt.
set_password_KeepsSalt(settings, password, salt) ==
    IF password = "" THEN [k \in DOMAIN settings \ {"auth.hash"} |-> settings[k]]
    ELSE Put(Put(settings, "auth.salt", salt), "auth.hash", hash_password(password, salt))

\* auth_set_password after the token check: _delete_setting of both keys for
\* an empty password, otherwise _set_setting of a new salt and the hash.
set_password(settings, password, salt) ==
    IF password = "" THEN [k \in DOMAIN settings \ {"auth.hash", "auth.salt"} |-> settings[k]]
    ELSE Put(Put(settings, "auth.salt", salt), "auth.hash", hash_password(password, salt))

\* What the service remembers of the request it answered last.
Answer(kind, path, token, password, outcome) ==
    [kind |-> kind, path |-> path, token |-> token, password |-> password,
     enabled |-> auth_enabled(auth.settings),
     valid |-> ~Unauthorized(auth.settings, token, auth.time), outcome |-> outcome]

\* POST /auth/password.
auth_set_password(password, header, query, salt) ==
    LET token == get_token_from_request(header, query)
        refused == auth_enabled(auth.settings) /\ Unauthorized(auth.settings, token, auth.time)
        settings == set_password(auth.settings, password, salt)
    IN /\ password = "" \/ refused \/ Cardinality(auth.issued) < MaxTokens
       /\ auth' = IF refused
                  THEN [auth EXCEPT !.last = Answer("password", <<>>, token, password, "401")]
                  ELSE [auth EXCEPT
                          !.settings = settings,
                          !.issued = IF password = "" THEN @
                                     ELSE @ \cup {make_token(settings["auth.hash"], auth.time)},
                          !.last = Answer("password", <<>>, token, password, "ok")]
       /\ UNCHANGED <<buildVars, moreVars, progressVars, ws, lg>>

\* POST /auth/login.
auth_login(password) ==
    LET secret == Get(auth.settings, "auth.hash", "")
        ok == /\ password # ""
              /\ auth_enabled(auth.settings)
              /\ hash_password(password, Get(auth.settings, "auth.salt", "")) = secret
    IN /\ ok => Cardinality(auth.issued) < MaxTokens
       /\ auth' = IF ok
                  THEN [auth EXCEPT !.issued = @ \cup {make_token(secret, auth.time)},
                                    !.last = Answer("login", <<>>, NoToken, password, "ok")]
                  ELSE [auth EXCEPT !.last = Answer("login", <<>>, NoToken, password, "refused")]
       /\ UNCHANGED <<buildVars, moreVars, progressVars, ws, lg>>

\* An HTTP request passes auth_middleware.
http_request(path, header, query) ==
    LET token == get_token_from_request(header, query)
    IN /\ auth' = [auth EXCEPT !.last =
                      Answer("http", path, token, "",
                             auth_middleware(auth.settings, path, token, auth.time))]
       /\ UNCHANGED <<buildVars, moreVars, progressVars, ws, lg>>

\* A WebSocket connection is accepted and checked.
ws_connect(header, query) ==
    LET token == get_token_from_request(query, header)
    IN /\ auth' = [auth EXCEPT !.last =
                      Answer("ws", <<>>, token, "",
                             require_ws_auth(auth.settings, token, auth.time))]
       /\ UNCHANGED <<buildVars, moreVars, progressVars, ws, lg>>

\* Days pass.
auth_elapse ==
    /\ auth.time + 4 <= MaxDays
    /\ auth' = [auth EXCEPT !.time = @ + 4]
    /\ UNCHANGED <<buildVars, moreVars, progressVars, ws, lg>>

NextAuth ==
    \/ \E password \in {"", "pw1"}, salt \in {"s1", "s2"},
          header \in {NoToken} \cup auth.issued, query \in {NoToken, ForgedToken} :
         auth_set_password(password, header, query, salt)
    \/ \E password \in {"", "pw1", "pw2"} : auth_login(password)
    \/ \E path \in Paths, header \in {NoToken} \cup auth.issued,
          query \in {NoToken, ForgedToken} \cup auth.issued :
         http_request(path, header, query)
    \/ \E header \in {NoToken} \cup auth.issued,
          query \in {NoToken, ForgedToken} \cup auth.issued :
         ws_connect(header, query)
    \/ auth_elapse

SpecAuth == Init /\ [][NextAuth]_vars

(***************************************************************************)
(* The latest firmware version of one key: cache, serve-stale, network     *)
(***************************************************************************)

\* _FIRMWARE_LATEST_TTL_SEC and _FIRMWARE_LATEST_RETRY_SEC.
FIRMWARE_LATEST_TTL_SEC == 3600
FIRMWARE_LATEST_RETRY_SEC == 60

\* What urlopen of version.xml ends in: an error, a body without a <latest>
\* element, or the version the body names.
NetOutcomes == {"fail", "none", "V1", "V2"}

\* The entry _redis_set_json stores.
CacheEntry(value, fetched_at, attempted_at) ==
    [present |-> TRUE, value |-> value, fetched_at |-> fetched_at, attempted_at |-> attempted_at]

\* The two returns before the network: a value that is fresh, or an entry
\* whose attempted_at is within the retry window.
ServedFromCache(cached, t) ==
    /\ cached.present
    /\ \/ cached.value # "" /\ t - cached.fetched_at <= FIRMWARE_LATEST_TTL_SEC
       \/ t - cached.attempted_at <= FIRMWARE_LATEST_RETRY_SEC

\* After urlopen: the entry under the key and the value returned.  A failure
\* with an entry present returns its value and stores nothing.
AfterNetwork(cached, net, t) ==
    LET found == IF net = "none" THEN "" ELSE net
    IN IF net = "fail"
       THEN IF cached.present
            THEN [cache |-> cached, returned |-> cached.value]
            ELSE [cache |-> CacheEntry("", 0, t), returned |-> ""]
       ELSE [cache |-> CacheEntry(found, IF found # "" THEN t ELSE 0, t), returned |-> found]

\* _get_latest_firmware(model, csc) for the key, with the outcome the network
\* would have.
get_latest_firmware(net) ==
    LET t == latest.clock
        cached == latest.cache
        called == ~ServedFromCache(cached, t)
        after == IF called THEN AfterNetwork(cached, net, t)
                 ELSE [cache |-> cached, returned |-> cached.value]
    IN /\ latest' = [latest EXCEPT
                        !.cache = after.cache,
                        !.tried_at = IF called THEN t ELSE @,
                        !.last = [at |-> t, called |-> called, failed |-> called /\ net = "fail",
                                  returned |-> after.returned, prev |-> cached,
                                  prev_tried |-> latest.tried_at]]
       /\ UNCHANGED <<buildVars, servedVars, arch, wsp>>

\* Time passes between two lookups.
latest_elapse(d) ==
    /\ latest.elapses < MaxElapses
    /\ latest' = [latest EXCEPT !.clock = @ + d, !.elapses = @ + 1]
    /\ UNCHANGED <<buildVars, servedVars, arch, wsp>>

NextLatest ==
    \/ \E net \in NetOutcomes : get_latest_firmware(net)
    \/ \E d \in {30, 3600} : latest_elapse(d)

SpecLatest == Init /\ [][NextLatest]_vars

(***************************************************************************)
(* POST /mods/upload: the archive is extracted and validated               *)
(***************************************************************************)

\* Bound: the entries of an uploaded archive.
MaxEntries == 3

\* Names, letter by letter: the directory of the upload, its extract
\* directory, a sibling whose name begins with "x" as well, a module
\* directory, module.prop, another file, and the parent directory.
DirUpload == <<"d">>
DirExtract == <<"x">>
DirSibling == <<"x", "y">>
DirModule == <<"m">>
ModuleProp == <<"p">>
FileOther == <<"e">>
DotDot == <<".", ".">>

\* work_dir / 'extract', the destination of the extraction.
ExtractRoot == <<DirUpload, DirExtract>>

\* The names of the files an archive may hold: m/p, ../e, ../xy/e and the
\* absolute /e.
EntryNames ==
    {[absolute |-> FALSE, segs |-> <<DirModule, ModuleProp>>],
     [absolute |-> FALSE, segs |-> <<DotDot, FileOther>>],
     [absolute |-> FALSE, segs |-> <<DotDot, DirSibling, FileOther>>],
     [absolute |-> TRUE, segs |-> <<FileOther>>]}

\* The archives uploaded: up to MaxEntries file entries.
Archives == UNION {[1..n -> EntryNames] : n \in 0..MaxEntries}

\* base / rel: an absolute rel replaces the base.
PathJoin(base, rel) == IF rel.absolute THEN rel.segs ELSE base \o rel.segs

\* Path.resolve(): the ".." segments are taken out with the segment before
\* them (no symlink is involved).
RECURSIVE Resolve(_)
Resolve(segs) ==
    IF segs = <<>> THEN <<>>
    ELSE LET before == Resolve(SubSeq(segs, 1, Len(segs) - 1))
             last == segs[Len(segs)]
         IN IF last # DotDot THEN Append(before, last)
            ELSE IF before = <<>> THEN <<>>
            ELSE SubSeq(before, 1, Len(before) - 1)

\* str(path): the letters of the path, a "/" before every segment.
RECURSIVE PathStr(_)
PathStr(segs) ==
    IF segs = <<>> THEN <<>>
    ELSE PathStr(SubSeq(segs, 1, Len(segs) - 1)) \o <<"/">> \o segs[Len(segs)]

\* str.startswith.
StartsWith(text, prefix) ==
    Len(text) >= Len(prefix) /\ SubSeq(text, 1, Len(prefix)) = prefix

\* _safe_join(base, rel): the resolved path, and whether ModsArchiveError
\* is raised.
safe_join(base, rel) ==
    LET out == Resolve(PathJoin(base, rel))
    IN [out |-> out, raises |-> ~StartsWith(PathStr(out), PathStr(Resolve(base)))]

\* _find_modules_root and validate_mods_archive after the extraction: a
\* directory right under the extract directory that holds module.prop.
HasModule(written) == ExtractRoot \o <<DirModule, ModuleProp>> \in written

\* upload_mods_archive: the upload is stored under a new id and its work
\* directory made; validate_mods_archive makes the extract directory.
upload_store(kind, entries) ==
    /\ arch.pc = "idle"
    /\ arch' = [arch EXCEPT !.pc = "extracting", !.kind = kind, !.entries = entries, !.i = 1]
    /\ UNCHANGED <<buildVars, servedVars, latest, wsp>>

\* One round of the loop of _extract_zip or _extract_tar: _safe_join of the
\* entry's name, then the file is opened and written.  ModsArchiveError is
\* answered 400 by the handler, which removes nothing.
extract_entry ==
    /\ arch.pc = "extracting"
    /\ arch.i <= Len(arch.entries)
    /\ LET joined == safe_join(ExtractRoot, arch.entries[arch.i])
       IN arch' = IF joined.raises
                  THEN [arch EXCEPT !.pc = "done", !.code = 400, !.detail = "Unsafe archive path"]
                  ELSE [arch EXCEPT !.i = @ + 1, !.written = @ \cup {joined.out}]
    /\ UNCHANGED <<buildVars, servedVars, latest, wsp>>

\* After the last entry: the modules are looked for; the sidecar is saved
\* and the upload answered 200, or the archive refused with 400.
upload_validate ==
    /\ arch.pc = "extracting"
    /\ arch.i > Len(arch.entries)
    /\ arch' = IF HasModule(arch.written)
               THEN [arch EXCEPT !.pc = "done", !.code = 200, !.sidecar = TRUE]
               ELSE [arch EXCEPT !.pc = "done", !.code = 400,
                                 !.detail = "Archive must contain modules"]
    /\ UNCHANGED <<buildVars, servedVars, latest, wsp>>

NextArchive ==
    \/ \E kind \in {"zip", "tar"}, entries \in Archives : upload_store(kind, entries)
    \/ extract_entry
    \/ upload_validate

SpecArchive == Init /\ [][NextArchive]_vars

(***************************************************************************)
(* run_build_job and the workspace: uploaded mods and debloat overrides    *)
(***************************************************************************)

\* The module directories of an uploaded archive, in the order of sorted().
UploadedModules == <<"mod-a", "mod-b", "mod-c">>

\* What a call that writes files ends in: it completes, or it raises after
\* part of its work.
Writes == {"ok", "raises"}

\* run_build_job is started for a job with or without an uploaded archive
\* and with or without debloat overrides; status running is committed.
overrides_start(archive, debloat_json) ==
    /\ wsp.pc = "idle"
    /\ wsp' = [wsp EXCEPT !.pc = "mods", !.archive = archive, !.debloat_json = debloat_json]
    /\ UNCHANGED <<buildVars, servedVars, latest, arch>>

\* if job.extra_mods_archive_path and the file exists: the tmp-extra-mods
\* directory of the job is made and the archive validated into it.
\* ModsArchiveError leaves for the except handler.
overrides_extract(outcome) ==
    /\ wsp.pc = "mods"
    /\ wsp' = IF ~wsp.archive THEN [wsp EXCEPT !.pc = "debloat"]
              ELSE [wsp EXCEPT !.pc = IF outcome = "ok" THEN "copy" ELSE "except",
                               !.tmp_dir = TRUE, !.extra_mods_tmp_dir = TRUE,
                               !.pending = IF outcome = "ok" THEN UploadedModules ELSE <<>>,
                               !.exit = IF outcome = "ok" THEN @ ELSE "exception"]
    /\ UNCHANGED <<buildVars, servedVars, latest, arch>>

\* applied_mod_dirs.append(dst) comes after shutil.copytree(module_dir, dst):
\* a copy that raises is not remembered.
Remembered(applied, module, outcome) ==
    IF outcome = "ok" THEN applied \cup {module} ELSE applied

\* One round of the loop over the modules: shutil.copytree to
\* unica/mods/.uploaded-<id>-<name>, which makes dst and, when a file cannot
\* be copied, raises with dst left behind.
overrides_copy(outcome) ==
    /\ wsp.pc = "copy"
    /\ wsp' = IF wsp.pending = <<>> THEN [wsp EXCEPT !.pc = "debloat"]
              ELSE [wsp EXCEPT !.pending = Tail(@),
                               !.uploaded = @ \cup {Head(wsp.pending)},
                               !.applied_mod_dirs = Remembered(@, Head(wsp.pending), outcome),
                               !.pc = IF outcome = "ok" THEN @ ELSE "except",
                               !.exit = IF outcome = "ok" THEN @ ELSE "exception"]
    /\ UNCHANGED <<buildVars, servedVars, latest, arch>>

\* apply_debloat_overrides: with nothing to override, or without a
\* debloat.sh, it returns None; else the backup is written, then debloat.sh
\* is rewritten; a write_text that raises has truncated the file.  The caller
\* swallows every exception of the call and goes on without the paths.
overrides_debloat(outcome) ==
    /\ wsp.pc = "debloat"
    /\ wsp' = IF ~wsp.debloat_json \/ outcome = "none" THEN [wsp EXCEPT !.pc = "child"]
              ELSE IF outcome = "ok"
              THEN [wsp EXCEPT !.pc = "child", !.backup = wsp.debloat_sh,
                               !.debloat_sh = "patched", !.debloat_override_paths = TRUE]
              ELSE [wsp EXCEPT !.pc = "child", !.backup = wsp.debloat_sh,
                               !.debloat_sh = "truncated"]
    /\ UNCHANGED <<buildVars, servedVars, latest, arch>>

\* The child runs and the job ends: the child exits 0 or not, the job is
\* canceled by a stop task, or an exception is raised on the way.
overrides_child(exit) ==
    /\ wsp.pc = "child"
    /\ wsp' = [wsp EXCEPT !.pc = IF exit = "exception" THEN "except" ELSE "finally",
                          !.exit = exit]
    /\ UNCHANGED <<buildVars, servedVars, latest, arch>>

\* except Exception: the job is marked failed.
overrides_except ==
    /\ wsp.pc = "except"
    /\ wsp' = [wsp EXCEPT !.pc = "finally"]
    /\ UNCHANGED <<buildVars, servedVars, latest, arch>>

\* restore_debloat_file(patched, backup).
restore_debloat_file(w) ==
    IF w.backup # "" THEN [w EXCEPT !.debloat_sh = w.backup, !.backup = ""] ELSE w

\* finally: rmtree of the applied mod directories and of the tmp directory,
\* restore_debloat_file when the overrides returned their paths.
overrides_finally ==
    /\ wsp.pc = "finally"
    /\ LET cleaned == [wsp EXCEPT !.pc = "returned",
                                  !.uploaded = @ \ wsp.applied_mod_dirs,
                                  !.tmp_dir = IF wsp.extra_mods_tmp_dir THEN FALSE ELSE @]
       IN wsp' = IF wsp.debloat_override_paths THEN restore_debloat_file(cleaned) ELSE cleaned
    /\ UNCHANGED <<buildVars, servedVars, latest, arch>>

NextOverrides ==
    \/ \E archive \in BOOLEAN, debloat_json \in BOOLEAN : overrides_start(archive, debloat_json)
    \/ \E outcome \in Writes : overrides_extract(outcome)
    \/ \E outcome \in Writes : overrides_copy(outcome)
    \/ \E outcome \in Writes \cup {"none"} : overrides_debloat(outcome)
    \/ \E exit \in {"success", "nonzero", "canceled", "exception"} : overrides_child(exit)
    \/ overrides_except
    \/ overrides_finally

SpecOverrides == Init /\ [][NextOverrides]_vars

(***************************************************************************)
(* Properties                                                              *)
(***************************************************************************)

\* C1: once a job's status is succeeded, failed, canceled or reused, no step
\* changes it.
C1_TerminalStatusNeverLeft ==
    [][\A j \in Jobs : db[j].status \in TerminalStatuses => db'[j].status = db[j].status]_vars

\* C2: process_pid is non-null only while the status is running.
C2_PidOnlyWhileRunning ==
    \A j \in Jobs : db[j].process_pid # NULL => db[j].status = "running"

\* C3: artifact_path is non-null only if the status is succeeded or reused.
C3_ArtifactOnlySucceededOrReused ==
    \A j \in Jobs : db[j].artifact_path # NULL => db[j].status \in {"succeeded", "reused"}

\* C4: after the child's exit run_build_job decides the final status from the
\* status it reads back from the table and the return code (canceled if a
\* stopper has stored canceled, whatever the return code; else succeeded for
\* return code 0; else failed), and its commit stores the status decided.
C4_ResolveByStoredStatusAndRc ==
    [][\A j \in Jobs :
          /\ (bw[j].pc = "resolve" /\ bw'[j].pc = "finalize") =>
                bw'[j].s.cur.status =
                    (IF db[j].status = "canceled" THEN "canceled"
                     ELSE IF child[j].rc = 0 THEN "succeeded" ELSE "failed")
          /\ (bw[j].pc = "finalize" /\ bw'[j].pc = "returned") =>
                db'[j].status = bw[j].s.cur.status]_vars

\* C4 witness: the child exited with return code 0, a stopper had stored
\* canceled, and run_build_job has decided canceled.
C4_Witness ==
    \E j \in Jobs :
        /\ bw[j].pc = "finalize"
        /\ child[j].rc = 0
        /\ bw[j].s.snap.status = "canceled"
        /\ bw[j].s.cur.status = "canceled"

\* C5: once run_build_job or the operation-job wrapper has returned, on
\* whatever path, the job's status is not running.
C5_NotRunningAfterReturn ==
    \A j \in Jobs : bw[j].pc = "returned" => db[j].status # "running"

\* C5 witness: a task has returned through its except handler and the job is
\* failed with the exception's text.
C5_Witness ==
    \E j \in Jobs :
        /\ bw[j].pc = "returned"
        /\ db[j].status = "failed"
        /\ db[j].error = ErrException

\* C6: after a stop request has been accepted for a queued job (the row
\* canceled with the queued-job text), the job stays canceled and no child is
\* started for it.
C6_NoChildAfterQueuedCancel ==
    [][\A j \in Jobs :
          (db[j].status = "canceled" /\ db[j].error = ErrCanceledQueued) =>
              /\ db'[j].status = "canceled"
              /\ child[j].state = "none" => child'[j].state = "none"]_vars

\* C7: a stop task that found the job running with a pid and whose deadline
\* passes with the process group alive changes only the error field, to the
\* retry text; status and process_pid are as before.
C7_TimeoutChangesOnlyError ==
    [][\A r \in StopIds :
          (st[r].pc = "waiting" /\ st'[r].pc = "timeout") =>
              /\ st[r].s.snap.status = "running"
              /\ st[r].s.snap.process_pid # NULL
              /\ db' = [db EXCEPT ![st[r].job] =
                           [db[st[r].job] EXCEPT !.error = ErrStillRunning(st[r].sig)]]]_vars

\* C8: when a sigkill stop task has seen the process group of a build gone
\* and marked the job canceled, and run_build_job has returned, the job is
\* canceled with process_pid null.
C8_CanceledAfterWorkerBookkeeping ==
    \A r \in StopIds :
        (/\ st[r].pc = "canceled"
         /\ st[r].sig = "sigkill"
         /\ db[st[r].job].job_kind = "build"
         /\ bw[st[r].job].pc = "returned") =>
            /\ db[st[r].job].status = "canceled"
            /\ db[st[r].job].process_pid = NULL

\* C9: a step of stop_job or of a stop task changes no field of a job that is
\* in a terminal status.
C9_StopLeavesTerminalJobs ==
    [][(api' # api \/ st' # st) =>
          \A j \in Jobs : db[j].status \in TerminalStatuses => db'[j] = db[j]]_vars

\* C10: at most one job at a time has a live child process.
C10_OneLiveChild ==
    Cardinality({j \in JobIds : child[j].state = "running"}) <= 1

\* The dict a floating-feature payload parses to.
FfDict(pairs) == [k \in FfKeysOf(pairs) |-> FfValue(pairs, k)]

\* Two requests agree on the materialized fields and on the contents of their
\* payloads: the same set of disabled mod ids (or none given in both), the
\* same set of disabled debloat ids, the same added paths, the same map of
\* floating-feature overrides.
Agree(a, b) ==
    /\ Materialize(a) = Materialize(b)
    /\ (a.mods_disabled = NoList) = (b.mods_disabled = NoList)
    /\ Range(a.mods_disabled) = Range(b.mods_disabled)
    /\ Range(IF a.debloat_disabled = NoList THEN <<>> ELSE a.debloat_disabled)
         = Range(IF b.debloat_disabled = NoList THEN <<>> ELSE b.debloat_disabled)
    /\ normalize_path_list(a.debloat_add_system) = normalize_path_list(b.debloat_add_system)
    /\ normalize_path_list(a.debloat_add_product) = normalize_path_list(b.debloat_add_product)
    /\ FfDict(a.ff_overrides) = FfDict(b.ff_overrides)

\* C16: two requests that agree on the materialized fields and on the contents
\* of the mods, debloat and floating-feature payloads get the same signature,
\* whatever the order of the disabled ids in their lists and of the keys in
\* their map.
C16_SignatureOfTheContents ==
    (probe.pc = "computed" /\ Agree(probe.a, probe.b)) => probe.sig_a = probe.sig_b

\* Two requests that agree and differ in the order of the disabled mod ids,
\* of the disabled debloat ids and of the map keys have got one signature.
C16_Witness ==
    /\ probe.pc = "computed"
    /\ Agree(probe.a, probe.b)
    /\ probe.a.mods_disabled # probe.b.mods_disabled
    /\ probe.a.debloat_disabled # probe.b.debloat_disabled
    /\ probe.a.ff_overrides # probe.b.ff_overrides
    /\ probe.a.version_major # probe.b.version_major
    /\ probe.sig_a = probe.sig_b

\* The fields the signature is made of, by name.
SignatureFields(payload) ==
    LET m == Materialize(payload)
        d == Digests(payload, NoList)
    IN [target |-> m.target, source_commit |-> m.source_commit,
        source_firmware |-> m.source_firmware, target_firmware |-> m.target_firmware,
        version_major |-> Str(m.version_major), version_minor |-> Str(m.version_minor),
        version_patch |-> Str(m.version_patch), version_suffix |-> m.version_suffix,
        extra_mods |-> d.extra_mods, mods_disabled |-> d.mods,
        debloat_disabled |-> d.debloat, debloat_add_system |-> d.debloat_add_system,
        debloat_add_product |-> d.debloat_add_product, ff_overrides |-> d.ff]

\* The hash of the named fields joined with "|" in the given order.
SignatureInOrder(payload, order) ==
    Sha256(Join([i \in 1..Len(order) |-> SignatureFields(payload)[order[i]]]), 40)

\* The order of the fields as stated, and the order with the digest of
\* mods_disabled after the three debloat digests.
StatedOrder ==
    <<"target", "source_commit", "source_firmware", "target_firmware",
      "version_major", "version_minor", "version_patch", "version_suffix",
      "extra_mods", "mods_disabled", "debloat_disabled", "debloat_add_system",
      "debloat_add_product", "ff_overrides">>
OrderOfBuildSignature ==
    <<"target", "source_commit", "source_firmware", "target_firmware",
      "version_major", "version_minor", "version_patch", "version_suffix",
      "extra_mods", "debloat_disabled", "debloat_add_system",
      "debloat_add_product", "mods_disabled", "ff_overrides">>

\* C17 as stated: the signature is the hash of the fields joined with "|" in
\* the order target, source_commit, source_firmware, target_firmware,
\* version_major, version_minor, version_patch, version_suffix, then the
\* digests of extra mods, mods_disabled, debloat_disabled, debloat_add_system,
\* debloat_add_product, ff_overrides.
C17_StatedOrder ==
    probe.pc = "computed" => probe.sig_a = SignatureInOrder(probe.a, StatedOrder)

\* C17: the signature is the hash of the fields joined with "|" in the order
\* target, source_commit, source_firmware, target_firmware, version_major,
\* version_minor, version_patch, version_suffix, then the digests of extra
\* mods, debloat_disabled, debloat_add_system, debloat_add_product,
\* mods_disabled, ff_overrides.
C17_DigestOfModsAfterDebloat ==
    probe.pc = "computed" => probe.sig_a = SignatureInOrder(probe.a, OrderOfBuildSignature)

\* A signature has been computed for a request whose digests of mods_disabled
\* and of debloat_disabled differ, so that their order shows in the hash.
C17_Witness ==
    /\ probe.pc = "computed"
    /\ probe.a.mods_disabled # NoList
    /\ SignatureFields(probe.a).mods_disabled # SignatureFields(probe.a).debloat_disabled
    /\ probe.sig_a = SignatureInOrder(probe.a, OrderOfBuildSignature)
    /\ probe.sig_a # SignatureInOrder(probe.a, StatedOrder)

\* The rows a reuse may be served from: the signature of the request, status
\* succeeded or reused, and an artifact file that exists.
ValidForReuse(signature) ==
    {e \in Jobs : /\ db[e].build_signature = signature
                  /\ db[e].status \in {"succeeded", "reused"}
                  /\ db[e].artifact_path # NULL
                  /\ db[e].artifact_path \in Range(files.out)}

\* The handler p takes its reuse decision in this step.
Decides(p) == post[p].pc = "validated" /\ post'[p].pc \in {"reuse", "fresh"}

\* C11: if a build with the signature of the request has succeeded and its
\* artifact file exists, a POST /jobs without force and without no_rom_zip
\* inserts a row with a new id, status reused and the artifact_path of such a
\* build, and enqueues nothing.
C11_SecondRequestIsReused ==
    [][\A p \in PostIds :
          /\ (/\ Decides(p)
              /\ ~post[p].payload.force /\ ~post[p].payload.no_rom_zip
              /\ \E first \in ValidForReuse(post[p].build_signature) :
                    db[first].status = "succeeded")
             => /\ post'[p].pc = "reuse"
                /\ \E first \in ValidForReuse(post[p].build_signature) :
                      /\ db[first].status = "succeeded"
                      /\ db[post'[p].existing].artifact_path = db[first].artifact_path
          /\ (post[p].pc = "reuse" /\ post'[p].pc = "done")
             => /\ Len(db') = Len(db) + 1
                /\ db'[Len(db')].status = "reused"
                /\ db'[Len(db')].artifact_path = db[post[p].existing].artifact_path
                /\ builds' = builds]_vars

\* The most recent rows of a set: none of the set finished later, nor
\* finished at the same time and was created later.
MostRecent(S) ==
    {e \in S : \A o \in S :
        \/ db[e].finished_at > db[o].finished_at
        \/ db[e].finished_at = db[o].finished_at /\ db[e].created_at >= db[o].created_at}

\* C14: the reuse lookup selects the most recent job among those with the
\* signature of the request, status succeeded or reused and an artifact file
\* that exists; the request is fulfilled by reuse whenever there is such a job,
\* also when a more recent job with the signature has lost its file.
C14_MostRecentWithAnArtifact ==
    [][\A p \in PostIds :
          (/\ Decides(p)
           /\ ~post[p].payload.force /\ ~post[p].payload.no_rom_zip
           /\ ValidForReuse(post[p].build_signature) # {})
          => /\ post'[p].pc = "reuse"
             /\ post'[p].existing \in MostRecent(ValidForReuse(post[p].build_signature))]_vars

\* C15: every job in a terminal status has finished_at >= started_at >=
\* created_at.  A job that was never started (canceled while queued) has no
\* started_at; for it finished_at >= created_at is asked.
C15_TimestampsInOrder ==
    \A j \in Jobs :
        db[j].status \in TerminalStatuses
        => /\ db[j].finished_at # NULL
           /\ db[j].finished_at >= db[j].created_at
           /\ db[j].started_at # NULL
              => /\ db[j].finished_at >= db[j].started_at
                 /\ db[j].started_at >= db[j].created_at

\* C12: every reused job has reused_from_job_id naming a job that was in
\* status succeeded or reused and whose artifact file existed when the
\* handler decided to reuse it and made the row; no job of any other status
\* has reused_from_job_id set.
C12_ReusedFromAnExistingArtifact ==
    /\ [](\A j \in Jobs :
            IF db[j].status = "reused"
            THEN db[j].reused_from_job_id \in Jobs \ {j}
            ELSE db[j].reused_from_job_id = NULL)
    /\ [][\A p \in PostIds :
            /\ (Decides(p) /\ post'[p].pc = "reuse")
               => /\ post'[p].existing \in Jobs
                  /\ db[post'[p].existing].status \in {"succeeded", "reused"}
                  /\ db[post'[p].existing].artifact_path \in Range(files.out)
            /\ (post[p].pc = "reuse" /\ post'[p].pc = "done")
               => /\ db'[Len(db')].status = "reused"
                  /\ db'[Len(db')].reused_from_job_id = post[p].existing]_vars

\* A reused job names the succeeded job it was served from, whose zip is in
\* the out tree, next to a job that is not reused and names none.
C12_Witness ==
    \E j \in Jobs, e \in Jobs :
        /\ db[j].status = "reused"
        /\ db[j].reused_from_job_id = e
        /\ db[e].status = "succeeded"
        /\ db[e].reused_from_job_id = NULL
        /\ db[j].artifact_path = db[e].artifact_path
        /\ db[e].artifact_path \in Range(files.out)

\* C13: a request with force or no_rom_zip that passes the checks never takes
\* the reuse branch: it inserts a row in status queued and its answer follows
\* the push of that row on the builds queue; the one other way out is the
\* push itself raising, which is answered 500.
C13_ForceNeverReuses ==
    [][\A p \in PostIds :
          (post[p].payload.force \/ post[p].payload.no_rom_zip)
          => /\ post'[p].pc # "reuse"
             /\ Decides(p) => post'[p].pc = "fresh"
             /\ (post[p].pc = "fresh" /\ post'[p].pc # "fresh")
                => /\ post'[p].pc = "inserted"
                   /\ Len(db') = Len(db) + 1
                   /\ db'[Len(db')].status = "queued"
                   /\ db'[Len(db')].reused_from_job_id = NULL
                   /\ post'[p].job = Len(db')
             /\ (post[p].pc = "inserted" /\ post'[p].pc # "inserted")
                => /\ post'[p].pc = "done"
                   /\ post'[p].code = 200 => builds' = Append(builds, post[p].job)
                   /\ post'[p].code # 200 => post'[p].code = 500 /\ builds' = builds]_vars

\* A request with no_rom_zip was answered with a queued job that is on the
\* builds queue, while a succeeded job with the same signature has its zip
\* in the out tree.
C13_Witness ==
    \E p \in PostIds, e \in Jobs :
        /\ post[p].pc = "done" /\ post[p].code = 200
        /\ post[p].payload.no_rom_zip
        /\ db[post[p].job].status = "queued"
        /\ post[p].job \in Range(builds)
        /\ e \in ValidForReuse(post[p].build_signature)
        /\ e < post[p].job

\* The POST /jobs requests that named upload u and were not refused.
AcceptedWith(u) ==
    {p \in PostIds : /\ post[p].pc # "idle"
                     /\ post[p].payload.extra_mods_upload_id = u
                     /\ post[p].code # 400}

\* C18: of the POST /jobs requests naming the same upload id at most one is
\* accepted, every other one is answered 400, and at most one job holds the
\* uploaded archive.
C18_UploadConsumedOnce ==
    \A u \in UploadIds :
        /\ Cardinality(AcceptedWith(u)) <= 1
        /\ Cardinality({j \in Jobs : db[j].extra_mods_archive_path = u}) <= 1
        /\ \A p \in PostIds :
              (/\ post[p].pc = "done"
               /\ post[p].payload.extra_mods_upload_id = u
               /\ p \notin AcceptedWith(u)) => post[p].code = 400 /\ post[p].job = NULL

\* One request naming the upload was answered with a job that holds the
\* archive, and a later one naming the same upload was answered 400.
C18_Witness ==
    \E p \in PostIds, q \in PostIds :
        /\ p # q
        /\ post[p].payload.extra_mods_upload_id = 1
        /\ post[q].payload = post[p].payload
        /\ post[p].pc = "done" /\ post[p].code = 200
        /\ db[post[p].job].extra_mods_archive_path = 1
        /\ post[q].pc = "done" /\ post[q].code = 400

\* C19: the used flag of a sidecar is false when the upload writes it, and
\* once true it stays true; a sidecar is not removed.
C19_UsedOnlyFalseToTrue ==
    [][\A u \in UploadIds :
          /\ (~uploads[u].present /\ uploads'[u].present) => ~uploads'[u].used
          /\ uploads[u].present => uploads'[u].present
          /\ uploads[u].used => uploads'[u].used]_vars

\* The sidecar of an upload went from false to true, the job that took it is
\* finished and its archive removed, and a later request naming it was
\* refused.
C19_Witness ==
    /\ uploads[1].present /\ uploads[1].used
    /\ 1 \notin files.archives
    /\ \E j \in Jobs : db[j].extra_mods_archive_path = 1 /\ db[j].status = "succeeded"
    /\ \E p \in PostIds : post[p].payload.extra_mods_upload_id = 1 /\ post[p].code = 400

\* The request fails a check of POST /jobs: an unknown target, an id of a mod
\* or of a debloat entry that the workspace does not hold, an unknown
\* floating-feature key, a debloat path with a refused character, an upload
\* that is missing or used.
FailsValidation(payload) ==
    \/ payload.target \notin Targets
    \/ /\ payload.mods_disabled # NoList
       /\ \E i \in DOMAIN payload.mods_disabled : payload.mods_disabled[i] \notin ModIds
    \/ /\ payload.debloat_disabled # NoList
       /\ \E i \in DOMAIN payload.debloat_disabled : payload.debloat_disabled[i] \notin DebloatIds
    \/ \E i \in DOMAIN payload.ff_overrides : payload.ff_overrides[i][1] \notin FfKeys
    \/ /\ payload.debloat_add_system # NoList
       /\ \E i \in DOMAIN payload.debloat_add_system :
             InvalidPath(StripPath(payload.debloat_add_system[i]))
    \/ /\ payload.debloat_add_product # NoList
       /\ \E i \in DOMAIN payload.debloat_add_product :
             InvalidPath(StripPath(payload.debloat_add_product[i]))
    \/ /\ payload.extra_mods_upload_id # NULL
       /\ \/ ~uploads[payload.extra_mods_upload_id].present
          \/ uploads[payload.extra_mods_upload_id].used

\* C20: a POST /jobs request that fails a check is answered 400 at once,
\* inserts no row and enqueues nothing, then and later.
C20_RefusedRequestCreatesNothing ==
    /\ [][\A p \in PostIds :
            (/\ post[p].pc = "idle" /\ post'[p].pc # "idle"
             /\ FailsValidation(post'[p].payload))
            => /\ post'[p].pc = "done" /\ post'[p].code = 400 /\ post'[p].job = NULL
               /\ db' = db /\ builds' = builds]_vars
    /\ [](\A p \in PostIds : post[p].code = 400 => post[p].pc = "done" /\ post[p].job = NULL)
    /\ [](\A j \in Jobs : \E p \in PostIds : post[p].job = j /\ post[p].code # 400)

\* Requests failing different checks were answered 400 (an unknown mod id, an
\* invalid debloat path, a used upload) after a request had been accepted,
\* and the table holds that one job only.
C20_Witness ==
    /\ Len(db) = 1
    /\ builds = <<1>>
    /\ \E p \in PostIds : post[p].code = 400 /\ post[p].payload.mods_disabled = <<"zz">>
                          /\ post[p].payload.extra_mods_upload_id = 1
    /\ \E p \in PostIds : post[p].code = 400 /\ post[p].payload.debloat_add_system # NoList
    /\ \E p \in PostIds : post[p].code = 200

\* C21: a failure of redis while a build or extract job runs does not change
\* the job's outcome: once the supervisor has returned and the child has
\* ended, the job is succeeded when the child's return code is 0 and failed
\* otherwise.
C21_OutcomeByReturnCode ==
    (sup.pc = "returned" /\ proc.state \in {"exited", "reaped"}) =>
        sup.status = IF proc.rc = 0 THEN "succeeded" ELSE "failed"

\* The events published for a key, and those of them that feed published,
\* in the order of publication.
PublishedFor(key) == SelectSeq(redis.published, LAMBDA e : e.fw_key = key)
FedFor(key) == SelectSeq(PublishedFor(key), LAMBDA e : e.by = "feed")

\* Every two events of the sequence that carry the same percent are 900 ms
\* or more apart; the same for neighbours only.
Spaced(events) ==
    \A i, j \in DOMAIN events :
        (i < j /\ events[i].percent # Absent /\ events[i].percent = events[j].percent) =>
            events[j].updated_at - events[i].updated_at >= 900
NeighboursSpaced(events) ==
    \A i \in DOMAIN events :
        (i > 1 /\ events[i].percent # Absent /\ events[i].percent = events[i - 1].percent) =>
            events[i].updated_at - events[i - 1].updated_at >= 900

\* C23 as stated: for one firmware key, two publications that carry the same
\* percent are never less than 900 ms apart, whichever method of the tracker
\* made them (feed, heartbeat, finalize).
C23_AllPublicationsSpaced == \A key \in Range(FwKeys) : Spaced(PublishedFor(key))

\* C23 as amended: for one firmware key, two successive publications of
\* parsed progress (feed) that carry the same percent are 900 ms or more
\* apart.
C23_FedPublicationsSpaced == \A key \in Range(FwKeys) : NeighboursSpaced(FedFor(key))

\* feed has published the same percent twice in a row for a key.
C23_Witness ==
    \E key \in Range(FwKeys) :
        /\ Len(FedFor(key)) = 2
        /\ FedFor(key)[1].percent = 40
        /\ FedFor(key)[2].percent = 40
        /\ FedFor(key)[2].updated_at - FedFor(key)[1].updated_at = 900

\* The last percent feed has published for a key, 0 when it has published none.
LastObserved(key) ==
    LET seen == SelectSeq(FedFor(key), LAMBDA e : e.percent # Absent)
    IN IF seen = <<>> THEN 0 ELSE seen[Len(seen)].percent

\* C24: when a tracked job ends (and redis has answered every call), the last
\* event of every tracked key is the one of finalize: completed with percent
\* 100 when the child's return code is 0, otherwise failed with the last
\* percent observed for the key, a value in 0..100.
C24_FinalEvent ==
    (sup.pc = "returned" /\ sup.exc # "redis") =>
        \A key \in TrackedKeys(tracker) :
            /\ PublishedFor(key) # <<>>
            /\ LET final == PublishedFor(key)[Len(PublishedFor(key))]
               IN /\ final.by = "finalize"
                  /\ IF sup.rc = 0
                     THEN final.status = "completed" /\ final.percent = 100
                     ELSE /\ final.status = "failed"
                          /\ final.percent \in 0..100
                          /\ final.percent = LastObserved(key)

\* The last time a heartbeat was published, the start of the child when none
\* was.
LastBeat ==
    LET beats == SelectSeq(redis.published, LAMBDA e : e.by = "heartbeat")
    IN IF beats = <<>> THEN sup.spawned_at ELSE beats[Len(beats)].updated_at

\* C25: while the child of a build or extract job is alive and the supervisor
\* reads its output, no second passes without a heartbeat, also when the
\* child writes nothing.
C25_HeartbeatEverySecond ==
    (sup.pc = "reading" /\ proc.state = "running" /\ TrackedKeys(tracker) # {}) =>
        mono - LastBeat <= 1000

\* The deltas the client has received, in the order of their arrival.
Deltas == SelectSeq(ws.received, LAMBDA m : m.type = "delta")

\* C22: a progress WebSocket client receives one snapshot message, before
\* any delta, and after it deltas only: the events published on the channel
\* from the subscription on, one after the other in the order in which they
\* were published.
C22_SnapshotThenDeltasInOrder ==
    /\ ws.received # <<>> =>
          /\ ws.received[1].type = "snapshot"
          /\ \A i \in 2..Len(ws.received) : ws.received[i].type = "delta"
    /\ (ws.pc = "polling" /\ ws.peer = "open") => ws.received # <<>>
    /\ \A i \in DOMAIN Deltas :
          /\ ws.first + i - 1 <= Len(redis.published)
          /\ Deltas[i].body = redis.published[ws.first + i - 1]

\* The client has the snapshot and two deltas that followed an event which
\* was published before the subscription.
C22_Witness ==
    /\ Len(ws.received) = 3
    /\ ws.first = 2
    /\ Deltas[1].body # Deltas[2].body

\* C28: when the client of a progress WebSocket has gone, the handler leaves
\* its polling loop within one poll cycle, also when no further event is
\* published: no second poll in a row returns empty-handed after that.
C28_LoopLeftWithinOnePoll ==
    (ws.pc = "polling" /\ ws.peer = "gone") => ws.idle_polls <= 1

\* C26: a log WebSocket opened with tail_kb=0 sends none of the lines the log
\* held when the client connected: every chunk starts at or after the size
\* the log had then.
C26_NoHistoryWithTailZero ==
    (lg.kind = "ws" /\ lg.tail_kb = 0 /\ lg.pc # "idle") =>
        \A i \in DOMAIN lg.sent :
            lg.sent[i].type = "chunk" => lg.sent[i].from >= lg.size_at_connect

\* The positions of the done events among the messages of the log stream.
DoneAt == {i \in DOMAIN lg.sent : lg.sent[i].type = "done"}

\* C27: a log stream (WebSocket or SSE) emits done at most once, as its last
\* message, and has ended then; the job is not queued or running when done
\* has been emitted; and a stream whose client stays connected does emit
\* done once the job has a final status.
C27_DoneOnceAtTheEnd ==
    /\ [](/\ Cardinality(DoneAt) <= 1
          /\ DoneAt # {} =>
                /\ DoneAt = {Len(lg.sent)}
                /\ lg.pc = "ended"
                /\ lg.status \in {"succeeded", "failed", "canceled"})
    /\ ((lg.pc \in {"tail", "read", "status"} /\ ~lg.writing)
            ~> (DoneAt # {} \/ lg.peer = "gone"))

\* A stream has sent a chunk and then done, for a job that failed.
C27_Witness ==
    /\ Len(lg.sent) = 2
    /\ lg.sent[1].type = "chunk"
    /\ lg.sent[2].type = "done"
    /\ lg.sent[2].status = "failed"
    /\ lg.pc = "ended"

\* The health routes and the routes under /auth/.
OpenRoute(path) ==
    \/ path \in {ApiPrefix \o <<"healthz">>, ApiPrefix \o <<"readyz">>}
    \/ Len(path) > 3 /\ SubSeq(path, 1, 3) = ApiPrefix \o <<"auth">>

\* C29: while a password is configured, an HTTP request outside the health
\* and /auth/ routes without a valid token is answered 401 and a WebSocket
\* connection without a valid token is closed with 4401; while none is
\* configured every request and connection is admitted.
C29_NoTokenNoEntry ==
    /\ (auth.last.kind = "http" /\ auth.last.enabled /\ ~auth.last.valid
            /\ ~OpenRoute(auth.last.path)) => auth.last.outcome = "401"
    /\ (auth.last.kind = "ws" /\ auth.last.enabled /\ ~auth.last.valid) =>
            auth.last.outcome = "4401"
    /\ (auth.last.kind \in {"http", "ws"} /\ ~auth.last.enabled) =>
            auth.last.outcome = "admitted"

\* C30: after a password was set, clearing it (POST /auth/password with an
\* empty password and a valid token) leaves no auth.hash and no auth.salt
\* setting, as at startup, and every request and connection is admitted
\* without a token.
C30_ClearingRestoresTheStart ==
    (auth.last.kind = "password" /\ auth.last.password = "" /\ auth.last.outcome = "ok") =>
        /\ auth.settings = <<>>
        /\ \A path \in Paths : auth_middleware(auth.settings, path, NoToken, auth.time) = "admitted"
        /\ require_ws_auth(auth.settings, NoToken, auth.time) = "admitted"

\* A password was set and has been cleared with a valid token.
C30_Witness ==
    /\ auth.last.kind = "password"
    /\ auth.last.password = ""
    /\ auth.last.outcome = "ok"
    /\ auth.last.enabled
    /\ auth.last.valid
    /\ auth.issued # {}
    /\ auth.settings = <<>>

\* The keys whose stored snapshot still has status running.
StillRunning == {k \in DOMAIN redis.hash : redis.hash[k].status = "running"}

\* C35: after the supervisor of a build or extract job has returned, no
\* stored firmware progress snapshot still has status running: every key for
\* which the tracker published an event has been finalized to completed or
\* failed.
C35_NothingLeftRunning ==
    sup.pc = "returned" => StillRunning = {}

\* What the client holds for a key: the body of the last delta it received
\* for the key, else the item of the snapshot message, else nothing.
ClientHolds(k) ==
    LET mine == SelectSeq(Deltas, LAMBDA m : m.body.fw_key = k)
        items == IF ws.received = <<>> THEN {} ELSE {e \in ws.received[1].items : e.fw_key = k}
    IN IF mine # <<>> THEN {mine[Len(mine)].body} ELSE items

\* C37: a progress WebSocket client converges to the stored state: when the
\* client is connected and has received every event queued for its
\* subscription, the state it holds for each key is the stored snapshot of
\* the key, whatever the interleaving of the handshake with the updates.
C37_ClientConverges ==
    (ws.pc = "polling" /\ ws.peer = "open" /\ get_message(redis.published, ws.next) = 0) =>
        \A k \in DOMAIN redis.hash : ClientHolds(k) = {redis.hash[k]}

\* The position up to which the log has been sent: the end of the last
\* chunk, the start position when no chunk was sent.
SentUpTo ==
    LET chunks == SelectSeq(lg.sent, LAMBDA m : m.type = "chunk")
    IN IF chunks = <<>> THEN lg.pos ELSE chunks[Len(chunks)].to

\* C36: when a log stream has emitted done, every line the worker appended
\* to the log before the final status was stored, from the start position of
\* the stream on, has been sent to the client.
C36_DoneAfterTheWholeLog ==
    DoneAt # {} => SentUpTo >= lg.final_size

\* C38: a POST /jobs request that is answered 400 leaves the persistent
\* state as it was: the table, the queue, the out tree and the archives, and
\* the sidecars of the uploads with their used flag.
C38_RefusedRequestChangesNothing ==
    [][\A p \in PostIds :
          (post[p].pc = "idle" /\ post'[p].pc = "done" /\ post'[p].code = 400) =>
              /\ uploads' = uploads
              /\ db' = db
              /\ builds' = builds
              /\ files' = files]_vars

\* The rows a POST /jobs request has inserted and not yet enqueued.
BeingCreated == {post[p].job : p \in {q \in PostIds : post[q].pc = "inserted"}}

\* C39: every job row in status queued has a pending item on the builds
\* queue, once the request that created it has been answered: a request
\* whose enqueue step fails leaves no row behind in status queued with no
\* queue item.
C39_QueuedRowsAreOnTheQueue ==
    \A j \in Jobs :
        (db[j].status = "queued" /\ j \notin BeingCreated) => j \in Range(builds)

\* C33: the stop task marks a running job canceled only after the child of
\* the job is no longer alive, for a build (whose child leads a process
\* group) and for an operation (whose child leads none): no stop task goes
\* from its wait loop to canceled while the child is running.
C33_CanceledOnlyWhenTheChildIsGone ==
    [][\A r \in StopIds :
          (st[r].pc = "waiting" /\ st'[r].pc = "canceled") =>
              child[st[r].job].state # "running"]_vars

\* The lookup answered last found a value that was at most 3600 s old.
FoundFresh ==
    /\ latest.last.prev.present
    /\ latest.last.prev.value # ""
    /\ latest.last.at - latest.last.prev.fetched_at <= FIRMWARE_LATEST_TTL_SEC

\* The network had been tried at most 60 s before the lookup answered last.
TriedLately ==
    /\ latest.last.prev_tried # Never
    /\ latest.last.at - latest.last.prev_tried <= FIRMWARE_LATEST_RETRY_SEC

\* C31: the lookup of one key follows the serve-stale rule: a value at most
\* 3600 s old is returned without a network call; after that, while the last
\* network attempt is at most 60 s old, the stale value is returned without
\* a network call; otherwise the network is tried, and a failed try is
\* recorded as an attempt and answered with the stale value.
C31_ServeStale ==
    latest.last.at # Never =>
        /\ FoundFresh =>
              ~latest.last.called /\ latest.last.returned = latest.last.prev.value
        /\ (~FoundFresh /\ TriedLately) =>
              ~latest.last.called /\ latest.last.returned = latest.last.prev.value
        /\ (~FoundFresh /\ ~TriedLately) => latest.last.called
        /\ latest.last.failed =>
              /\ latest.last.returned = latest.last.prev.value
              /\ latest.cache.present
              /\ latest.cache.attempted_at = latest.last.at

\* The path lies inside the extract directory: the directory itself or a
\* path below it, segment by segment.
InsideRoot(path) ==
    Len(path) >= Len(ExtractRoot) /\ SubSeq(path, 1, Len(ExtractRoot)) = ExtractRoot

\* The entries of the uploaded archive whose resolved path is not inside
\* the extract directory.
UnsafeEntries ==
    {i \in DOMAIN arch.entries : ~InsideRoot(Resolve(PathJoin(ExtractRoot, arch.entries[i])))}

\* C32: the extraction writes no file outside the extract directory, and an
\* archive with an entry whose resolved path is not inside it (../e, or a
\* path into the sibling xy) is answered 400 with no sidecar written.
C32_NothingOutsideTheRoot ==
    /\ \A path \in arch.written : InsideRoot(path)
    /\ (arch.pc = "done" /\ UnsafeEntries # {}) => (arch.code = 400 /\ ~arch.sidecar)

\* C34: if any entry of the archive has an unsafe path, no entry of the
\* archive is written to the extract directory.
C34_UnsafeArchiveWritesNothing ==
    UnsafeEntries # {} => arch.written = {}

\* C40: when run_build_job has returned, by any exit (success, non-zero
\* exit, exception, cancel), debloat.sh has the content it had before the
\* job, none of the job's .uploaded-* directories remains and the job's
\* tmp-extra-mods directory is removed.
C40_OverridesUndone ==
    wsp.pc = "returned" =>
        /\ wsp.debloat_sh = "original"
        /\ wsp.uploaded = {}
        /\ ~wsp.tmp_dir

====
